---- MODULE Spec2Model ----
(***************************************************************************)
(* A model of the value/element codec of package soap (src/element.go,     *)
(* the current revision, lines 691-1550).                                  *)
(*                                                                         *)
(* Go strings are sequences of one-character strings, so that the code's   *)
(* string operations (strings.IndexRune, slicing, strings.Contains,        *)
(* concatenation) are modelled by what they do.  Integers are decimal      *)
(* magnitudes with a sign, [neg, mag], because the 32 and 64 bit ranges    *)
(* of the code do not fit the model checker's integers; strconv's          *)
(* formatting and parsing convert between such a number and its text.      *)
(* A call that panics yields an outcome whose st field is "panic".         *)
(***************************************************************************)
EXTENDS Integers, Sequences, FiniteSets, TLC

VARIABLES
    elem,     \* the Element at hand (built by MakeElement or by the XML decoder)
    made,     \* the native value elem was made from, or NoNative
    last      \* the last call: [op, key, sp, strict, out]; sp is the record
              \* handed to LoadStruct, out.val the same record after the call

vars == <<elem, made, last>>

----------------------------------------------------------------------------
(* Strings *)

\* strings.IndexRune(s, c): the first index of c in s, 0 when absent
\* (Go's -1; indices are 1-based here).
IndexRune(s, c) ==
    IF \E i \in 1..Len(s) : s[i] = c
    THEN CHOOSE i \in 1..Len(s) : s[i] = c /\ \A j \in 1..(i - 1) : s[j] # c
    ELSE 0

\* strings.Contains(s, sub)
Contains(s, sub) ==
    \E i \in 0..(Len(s) - Len(sub)) :
        \A j \in 1..Len(sub) : s[i + j] = sub[j]

\* a skipNS that strips nothing
KeepNS(s) == s

skipNS(s) ==
    LET i == IndexRune(s, ":")
    IN  IF i = 0 THEN s ELSE SubSeq(s, i + 1, Len(s))

----------------------------------------------------------------------------
(* Numbers and strconv *)

DigitChars == <<"0", "1", "2", "3", "4", "5", "6", "7", "8", "9">>

IsDigit(c) == \E d \in 1..10 : DigitChars[d] = c

DigitOf(c) == (CHOOSE d \in 1..10 : DigitChars[d] = c) - 1

Zero == [neg |-> FALSE, mag |-> <<0>>]

RECURSIVE StripZeros(_)
StripZeros(m) ==
    IF Len(m) > 1 /\ m[1] = 0 THEN StripZeros(Tail(m)) ELSE m

\* a < b on magnitudes without leading zeros
RECURSIVE MagLT(_, _)
MagLT(a, b) ==
    IF Len(a) # Len(b) THEN Len(a) < Len(b)
    ELSE IF a = <<>> THEN FALSE
    ELSE IF a[1] # b[1] THEN a[1] < b[1]
    ELSE MagLT(Tail(a), Tail(b))

MagLE(a, b) == a = b \/ MagLT(a, b)

\* 2^(bits-1): strconv.ParseInt's cutoff
IntCutoff(bits) ==
    CASE bits = 8  -> <<1, 2, 8>>
      [] bits = 16 -> <<3, 2, 7, 6, 8>>
      [] bits = 32 -> <<2, 1, 4, 7, 4, 8, 3, 6, 4, 8>>
      [] bits = 64 -> <<9, 2, 2, 3, 3, 7, 2, 0, 3, 6, 8, 5, 4, 7, 7, 5, 8, 0, 8>>

\* 2^bits - 1: strconv.ParseUint's maximum
UintMax(bits) ==
    CASE bits = 8  -> <<2, 5, 5>>
      [] bits = 16 -> <<6, 5, 5, 3, 5>>
      [] bits = 32 -> <<4, 2, 9, 4, 9, 6, 7, 2, 9, 5>>
      [] bits = 64 -> <<1, 8, 4, 4, 6, 7, 4, 4, 0, 7, 3, 7, 0, 9, 5, 5, 1, 6, 1, 5>>

InIntRange(n, bits) ==
    IF n.neg THEN MagLE(n.mag, IntCutoff(bits)) ELSE MagLT(n.mag, IntCutoff(bits))

InUintRange(n, bits) == ~n.neg /\ MagLE(n.mag, UintMax(bits))

\* strconv.FormatUint(v, 10)
FormatUint(n) == [i \in 1..Len(n.mag) |-> DigitChars[n.mag[i] + 1]]

\* strconv.FormatInt(v, 10)
FormatInt(n) == IF n.neg THEN <<"-">> \o FormatUint(n) ELSE FormatUint(n)

\* strconv.ParseUint(s, 10, bits): [ok, v]; v is 0 when the code ignores it
ParseUint(s, bits) ==
    IF s = <<>> \/ \E i \in 1..Len(s) : ~IsDigit(s[i])
    THEN [ok |-> FALSE, v |-> Zero]
    ELSE LET m == StripZeros([i \in 1..Len(s) |-> DigitOf(s[i])])
         IN  IF MagLE(m, UintMax(bits))
             THEN [ok |-> TRUE, v |-> [neg |-> FALSE, mag |-> m]]
             ELSE [ok |-> FALSE, v |-> Zero]

\* strconv.ParseInt(s, 10, bits): an optional sign, then the digits
ParseInt(s, bits) ==
    LET signed == s # <<>> /\ s[1] \in {"+", "-"}
        neg    == s # <<>> /\ s[1] = "-"
        body   == IF signed THEN Tail(s) ELSE s
    IN  IF body = <<>> \/ \E i \in 1..Len(body) : ~IsDigit(body[i])
        THEN [ok |-> FALSE, v |-> Zero]
        ELSE LET m == StripZeros([i \in 1..Len(body) |-> DigitOf(body[i])])
                 n == [neg |-> neg /\ m # <<0>>, mag |-> m]
             IN  IF (neg /\ MagLE(m, IntCutoff(bits)))
                    \/ (~neg /\ MagLT(m, IntCutoff(bits)))
                 THEN [ok |-> TRUE, v |-> n]
                 ELSE [ok |-> FALSE, v |-> Zero]

\* a magnitude of at most nine digits as an integer of the model checker
RECURSIVE MagToInt(_)
MagToInt(m) ==
    IF m = <<>> THEN 0 ELSE MagToInt(SubSeq(m, 1, Len(m) - 1)) * 10 + m[Len(m)]

RECURSIVE IntToMag(_)
IntToMag(x) ==
    IF x < 10 THEN <<x>> ELSE IntToMag(x \div 10) \o <<x % 10>>

NumOf(x) == IF x < 0 THEN [neg |-> TRUE, mag |-> IntToMag(-x)]
            ELSE [neg |-> FALSE, mag |-> IntToMag(x)]

\* Go's conversion intN(v) of an integer: the value when it fits, else its low
\* bits as two's complement (needed, and computed, for 8 and 16 bits only)
CastInt(n, bits) ==
    IF InIntRange(n, bits) THEN n
    ELSE LET x == (IF n.neg THEN -1 ELSE 1) * MagToInt(n.mag)
             m == x % (2 ^ bits)
         IN  NumOf(IF m >= 2 ^ (bits - 1) THEN m - 2 ^ bits ELSE m)

\* Go's conversion uintN(v) of an unsigned integer
CastUint(n, bits) ==
    IF InUintRange(n, bits) THEN n
    ELSE NumOf(MagToInt(n.mag) % (2 ^ bits))

----------------------------------------------------------------------------
(* Floating point: a float is the decimal mant * 10^exp it is nearest to,   *)
(* with mant free of trailing zeros.  Texts with "inf", "nan", hexadecimal  *)
(* digits or underscores are outside the inputs of the model.               *)

FZero == [mant |-> Zero, exp |-> 0]

RECURSIVE FNorm(_, _)
\* strip the trailing zeros of the magnitude m, raising the exponent e
FNorm(m, e) ==
    IF m = <<0>> THEN [mag |-> m, exp |-> 0]
    ELSE IF m[Len(m)] = 0 THEN FNorm(SubSeq(m, 1, Len(m) - 1), e + 1)
    ELSE [mag |-> m, exp |-> e]

AllDigits(s) == \A i \in 1..Len(s) : IsDigit(s[i])

Digits(s) == [i \in 1..Len(s) |-> DigitOf(s[i])]

\* the largest decimal exponent (scientific notation) of a finite float
FloatMaxExp(bits) == IF bits = 32 THEN 38 ELSE 308

\* strconv.ParseFloat(s, bits): [ok, v]; the text is split into its sign,
\* integer part, fraction and exponent, and the value is out of range when
\* its magnitude exceeds the largest finite float of the width
ParseFloat(s, bits) ==
    LET bad == [ok |-> FALSE, v |-> FZero]
        range(neg, nm) ==
            IF nm.mag # <<0>> /\ nm.exp + Len(nm.mag) - 1 > FloatMaxExp(bits) THEN bad
            ELSE [ok |-> TRUE,
                  v  |-> [mant |-> [neg |-> neg /\ nm.mag # <<0>>, mag |-> nm.mag],
                          exp  |-> nm.exp]]
        number(neg, ip, fp, hasE, eneg, edig) ==
            IF ~(/\ AllDigits(ip) /\ AllDigits(fp) /\ Len(ip) + Len(fp) > 0
                 /\ hasE => (edig # <<>> /\ AllDigits(edig) /\ Len(edig) <= 3))
            THEN bad
            ELSE range(neg, FNorm(StripZeros(Digits(ip \o fp)),
                                  (IF ~hasE THEN 0
                                   ELSE (IF eneg THEN -1 ELSE 1) * MagToInt(Digits(edig)))
                                  - Len(fp)))
        parts(neg, mstr, dot, hasE, estr) ==
            number(neg,
                   IF dot = 0 THEN mstr ELSE SubSeq(mstr, 1, dot - 1),
                   IF dot = 0 THEN <<>> ELSE SubSeq(mstr, dot + 1, Len(mstr)),
                   hasE,
                   estr # <<>> /\ estr[1] = "-",
                   IF estr # <<>> /\ estr[1] \in {"+", "-"} THEN Tail(estr) ELSE estr)
        mantissa(neg, mstr, hasE, estr) ==
            parts(neg, mstr, IndexRune(mstr, "."), hasE, estr)
        exponent(neg, r, ePos) ==
            mantissa(neg,
                     IF ePos = 0 THEN r ELSE SubSeq(r, 1, ePos - 1),
                     ePos # 0,
                     IF ePos = 0 THEN <<>> ELSE SubSeq(r, ePos + 1, Len(r)))
        unsigned(neg, r) ==
            exponent(neg, r,
                     IF IndexRune(r, "e") # 0 THEN IndexRune(r, "e") ELSE IndexRune(r, "E"))
    IN  unsigned(s # <<>> /\ s[1] = "-",
                 IF s # <<>> /\ s[1] \in {"+", "-"} THEN Tail(s) ELSE s)

\* strconv.FormatFloat(v, 'e', prec, bits) of a float of at most prec+1
\* significant digits: d.ddd...e+XX
FormatFloat(f, prec) ==
    LET m    == f.mant.mag
        sci  == IF m = <<0>> THEN 0 ELSE f.exp + Len(m) - 1
        frac == [i \in 1..prec |-> IF i + 1 <= Len(m) THEN DigitChars[m[i + 1] + 1] ELSE "0"]
        a    == IF sci < 0 THEN -sci ELSE sci
        ed   == IF a < 10 THEN <<0>> \o IntToMag(a) ELSE IntToMag(a)
    IN  (IF f.mant.neg THEN <<"-">> ELSE <<>>)
        \o <<DigitChars[m[1] + 1], ".">> \o frac
        \o <<"e", IF sci < 0 THEN "-" ELSE "+">>
        \o [i \in 1..Len(ed) |-> DigitChars[ed[i] + 1]]

----------------------------------------------------------------------------
(* Time: a time is [date, clock, nsec, zone]; the layouts are fixed-width   *)

timeFormatSOAP == <<"d","d","d","d","-","d","d","-","d","d","T","d","d",":","d","d",":","d","d",
                    ".","d","d","d","d","d","d","d","d","d","s","d","d",":","d","d">>

timeFormatSQL == <<"d","d","d","d","-","d","d","-","d","d"," ","d","d",":","d","d",":","d","d">>

\* time.Time{}
ZeroTime == [date |-> <<1, 1, 1>>, clock |-> <<0, 0, 0>>, nsec |-> 0, zone |-> <<"UTC">>]

\* s has the shape of layout: a digit for "d", a sign for "s", else the character
MatchLayout(layout, s) ==
    /\ Len(s) = Len(layout)
    /\ \A i \in 1..Len(layout) :
          CASE layout[i] = "d" -> IsDigit(s[i])
            [] layout[i] = "s" -> s[i] \in {"+", "-"}
            [] OTHER -> s[i] = layout[i]

\* the number written at positions a..b of s, 0 beyond the end of s
Field(s, a, b) == IF b <= Len(s) THEN MagToInt(Digits(SubSeq(s, a, b))) ELSE 0

\* time.Parse(layout, s) and time.ParseInLocation(layout, s, loc): [ok, v];
\* zone is the offset text of s, or loc when the layout has none
TimeParse(layout, s, loc) ==
    IF ~MatchLayout(layout, s) THEN [ok |-> FALSE, v |-> ZeroTime]
    ELSE LET mo == Field(s, 6, 7)
             d  == Field(s, 9, 10)
             h  == Field(s, 12, 13)
             mi == Field(s, 15, 16)
             se == Field(s, 18, 19)
             inRange == /\ mo \in 1..12
                        /\ (Len(s) >= 10 => d \in 1..31)
                        /\ h < 24 /\ mi < 60 /\ se < 60
         IN  IF ~inRange THEN [ok |-> FALSE, v |-> ZeroTime]
             ELSE [ok |-> TRUE,
                   v  |-> [date  |-> <<Field(s, 1, 4), mo, d>>,
                           clock |-> <<h, mi, se>>,
                           nsec  |-> Field(s, 21, 29),
                           zone  |-> IF Len(s) > 29 THEN SubSeq(s, 30, Len(s)) ELSE loc]]

\* the decimal digits of x, zero-padded to width w
Pad(x, w) ==
    LET m == IntToMag(x)
    IN  [i \in 1..w |-> IF i <= w - Len(m) THEN "0" ELSE DigitChars[m[i - (w - Len(m))] + 1]]

\* t.Format("2006-01-02T15:04:05.000000000-07:00") of a time with a numeric zone
TimeFormat(t) ==
    Pad(t.date[1], 4) \o <<"-">> \o Pad(t.date[2], 2) \o <<"-">> \o Pad(t.date[3], 2)
    \o <<"T">> \o Pad(t.clock[1], 2) \o <<":">> \o Pad(t.clock[2], 2) \o <<":">>
    \o Pad(t.clock[3], 2) \o <<".">> \o Pad(t.nsec, 9) \o t.zone

----------------------------------------------------------------------------
(* Elements, values, errors *)

\* type Element struct: XMLName.Local, Type, Nil, Text, Children.  A nil
\* Children slice is the empty sequence (the XML decoder and MakeElement leave
\* Children nil exactly when there is no child).
Element(name, type, nil, text, children) ==
    [name |-> name, type |-> type, nil |-> nil, text |-> text, children |-> children]

\* a nil *Element: a record of the same fields, told apart by a name no
\* string of single characters can equal
NilPtr == [name |-> <<"nil *Element">>, type |-> <<>>, nil |-> FALSE, text |-> <<>>,
           children |-> <<>>]

\* a Go value held in an interface{}: its dynamic type and its value
Val(t, v) == [v |-> v, t |-> t]

NilVal == Val("nil", <<>>)

NoErr == [a |-> <<>>, b |-> <<>>, class |-> ""]

Err(class, a, b) == [a |-> a, b |-> b, class |-> class]

\* the result of a call returning (value, error), or its panic
Ok(v) == [st |-> "ok", val |-> v, err |-> NoErr]

Fail(v, e) == [st |-> "err", val |-> v, err |-> e]

Panic(why) == [st |-> "panic", val |-> NilVal, err |-> Err("panic", why, <<>>)]

badValue(e, typ) ==
    LET val == IF e.children # <<>> THEN <<"{", ".", ".", ".", "}">> ELSE e.text
        t   == IF typ = <<>> THEN <<"S", "O", "A", "P", ":">> \o skipNS(e.type)
               ELSE <<"G", "o", ":">> \o typ
    IN  Err("badValue", val, t)

typeError(e, exp) == Err("typeError", skipNS(e.type), exp)

\* the dynamic types a Go map cannot hash and == cannot compare
Unhashable(v) == v.t \in {"map[string]interface{}", "[]interface{}", "map[interface{}]interface{}"}

----------------------------------------------------------------------------
(* MapItem, Value, Get, GetValue *)

\* (e *Element) MapItem(): [st, key, val, err]
MapItem(e) ==
    LET R(st, k, v, err) == [st |-> st, val |-> v, err |-> err, key |-> k]
        boom == R("panic", NilPtr, NilPtr, Err("panic", <<>>, <<>>))
    IN  IF e = NilPtr THEN boom
        ELSE IF e.name # <<"i", "t", "e", "m">>
        THEN R("err", NilPtr, NilPtr, Err("notMapItem", e.name, <<>>))
        ELSE
          LET cs   == e.children
              err0 == IF Len(cs) # 2 \/ cs[1] = NilPtr \/ cs[2] = NilPtr
                      THEN Err("badChildrenCount", <<>>, <<>>) ELSE NoErr
              has(i) == Len(cs) >= i /\ cs[i] # NilPtr
              \* switch "value", reached with key set
              value(k) ==
                  IF ~has(2) THEN boom
                  ELSE IF cs[2].name = <<"v", "a", "l", "u", "e">>
                  THEN R(IF err0 = NoErr THEN "ok" ELSE "err", k, cs[2], err0)
                  ELSE IF cs[1].name = <<"v", "a", "l", "u", "e">>
                  THEN R(IF err0 = NoErr THEN "ok" ELSE "err", k, cs[1], err0)
                  ELSE R("err", k, NilPtr, Err("noValue", <<>>, <<>>))
          IN  \* switch "key"
              IF ~has(1) THEN boom
              ELSE IF cs[1].name = <<"k", "e", "y">> THEN value(cs[1])
              ELSE IF ~has(2) THEN boom
              ELSE IF cs[2].name = <<"k", "e", "y">> THEN value(cs[2])
              ELSE R("err", NilPtr, NilPtr, Err("noKey", <<>>, <<>>))

\* m[k] = v on a map[interface{}]interface{} kept as a sequence of entries
MapPut(m, k, v) ==
    IF \E i \in 1..Len(m) : m[i].k.t = k.t /\ m[i].k.v = k.v
    THEN [i \in 1..Len(m) |->
            IF m[i].k.t = k.t /\ m[i].k.v = k.v THEN [v |-> v, k |-> k] ELSE m[i]]
    ELSE Append(m, [v |-> v, k |-> k])

RECURSIVE Value(_)
RECURSIVE ValueStruct(_, _)
RECURSIVE ValueArray(_, _)
RECURSIVE ValueMap(_, _)

\* case "Struct": the children cs still to decode, m the map so far
ValueStruct(cs, m) ==
    IF cs = <<>> THEN Ok(Val("map[string]interface{}", m))
    ELSE IF cs[1] = NilPtr THEN Panic(<<>>)
    ELSE LET put(r) == IF r.st # "ok" THEN r
                       ELSE ValueStruct(Tail(cs),
                              [n \in DOMAIN m \cup {cs[1].name} |->
                                  IF n = cs[1].name THEN r.val ELSE m[n]])
         IN  put(Value(cs[1]))

RECURSIVE ValueArrayAnyName(_, _)
\* a case "Array" that decodes every child, whatever its name
ValueArrayAnyName(cs, a) ==
    IF cs = <<>> THEN Ok(Val("[]interface{}", a))
    ELSE IF cs[1] = NilPtr THEN Panic(<<>>)
    ELSE LET put(r) == IF r.st # "ok" THEN r
                       ELSE ValueArrayAnyName(Tail(cs), Append(a, r.val))
         IN  put(Value(cs[1]))

\* case "Array"
ValueArray(cs, a) ==
    IF cs = <<>> THEN Ok(Val("[]interface{}", a))
    ELSE IF cs[1] = NilPtr THEN Panic(<<>>)
    ELSE IF cs[1].name # <<"i", "t", "e", "m">>
    THEN Fail(NilVal, Err("badArrayElement", cs[1].name, <<>>))
    ELSE LET put(r) == IF r.st # "ok" THEN r ELSE ValueArray(Tail(cs), Append(a, r.val))
         IN  put(Value(cs[1]))

\* case "Map"
ValueMap(cs, m) ==
    IF cs = <<>> THEN Ok(Val("map[interface{}]interface{}", m))
    ELSE LET put(k, v) == IF v.st # "ok" THEN v
                          ELSE IF Unhashable(k.val) THEN Panic(<<>>)
                          ELSE ValueMap(Tail(cs), MapPut(m, k.val, v.val))
             key(it, k) == IF k.st # "ok" THEN k ELSE put(k, Value(it.val))
             item(it) == IF it.st = "panic" THEN Panic(<<>>)
                         ELSE IF it.st = "err" THEN Fail(NilVal, it.err)
                         ELSE key(it, Value(it.key))
         IN  item(MapItem(cs[1]))

\* a Value() that looks at the tag before the nil flag
ValueTagFirst(e) ==
    IF e = NilPtr THEN Panic(<<>>)
    ELSE IF skipNS(e.type) = <<"s", "t", "r", "i", "n", "g">> THEN Ok(Val("string", e.text))
    ELSE IF e.nil THEN Ok(NilVal)
    ELSE Fail(NilVal, Err("unknownType", e.type, <<>>))

\* (e *Element) Value()
Value(e) ==
    IF e = NilPtr THEN Panic(<<>>)
    ELSE IF e.nil THEN Ok(NilVal)
    ELSE LET t == skipNS(e.type)
         IN  CASE t = <<"s", "t", "r", "i", "n", "g">> -> Ok(Val("string", e.text))
               [] t = <<"b", "o", "o", "l", "e", "a", "n">> ->
                    IF e.text = <<"t", "r", "u", "e">> THEN Ok(Val("bool", TRUE))
                    ELSE IF e.text = <<"f", "a", "l", "s", "e">> THEN Ok(Val("bool", FALSE))
                    ELSE Fail(NilVal, badValue(e, <<>>))
               [] t \in {<<"l", "o", "n", "g">>, <<"i", "n", "t">>,
                         <<"s", "h", "o", "r", "t">>, <<"b", "y", "t", "e">>} ->
                    LET got(p) == IF p.ok THEN Ok(Val("int64", p.v)) ELSE Fail(NilVal, badValue(e, <<>>))
                    IN  got(ParseInt(e.text, 64))
               [] t \in {<<"u", "n", "s", "i", "g", "n", "e", "d", "L", "o", "n", "g">>,
                         <<"u", "n", "s", "i", "g", "n", "e", "d", "I", "n", "t">>,
                         <<"u", "n", "s", "i", "g", "n", "e", "d", "S", "h", "o", "r", "t">>,
                         <<"u", "n", "s", "i", "g", "n", "e", "d", "B", "y", "t", "e">>} ->
                    LET got(p) == IF p.ok THEN Ok(Val("uint64", p.v)) ELSE Fail(NilVal, badValue(e, <<>>))
                    IN  got(ParseUint(e.text, 64))
               [] t \in {<<"f", "l", "o", "a", "t">>, <<"d", "o", "u", "b", "l", "e">>} ->
                    LET got(p) == IF p.ok THEN Ok(Val("float64", p.v)) ELSE Fail(NilVal, badValue(e, <<>>))
                    IN  got(ParseFloat(e.text, 64))
               [] t = <<"d", "a", "t", "e", "T", "i", "m", "e">> ->
                    LET got(p) == IF p.ok THEN Ok(Val("time.Time", p.v)) ELSE Fail(NilVal, badValue(e, <<>>))
                    IN  got(TimeParse(timeFormatSOAP, e.text, <<"UTC">>))
               [] t = <<"S", "t", "r", "u", "c", "t">> ->
                    ValueStruct(e.children, <<>>)
               [] t = <<"A", "r", "r", "a", "y">> -> ValueArray(e.children, <<>>)
               [] t = <<"M", "a", "p">> -> ValueMap(e.children, <<>>)
               [] OTHER -> Fail(NilVal, Err("unknownType", e.type, <<>>))

RECURSIVE GetMap(_, _)
\* the body of the loop of case "Map" of Get for the decoded item it, whose
\* key decodes to kv; kv != key compares two interface values, and panics
\* when both hold the same uncomparable type
GetMapItem(it, kv, cs, key) ==
    IF it.st = "panic" THEN [st |-> "panic", err |-> it.err, el |-> NilPtr]
    ELSE IF it.st = "err" THEN [st |-> "err", err |-> it.err, el |-> NilPtr]
    ELSE IF kv.st # "ok" THEN [st |-> kv.st, err |-> kv.err, el |-> NilPtr]
    ELSE IF kv.val.t # key.t THEN GetMap(Tail(cs), key)
    ELSE IF Unhashable(key)
    THEN [st |-> "panic", err |-> Err("panic", <<>>, <<>>), el |-> NilPtr]
    ELSE IF kv.val.v # key.v THEN GetMap(Tail(cs), key)
    ELSE [st |-> "ok", err |-> NoErr, el |-> it.val]

\* case "Map" of Get: the children cs still to scan; the loop ending without
\* a match returns nil, nil
GetMap(cs, key) ==
    IF cs = <<>> THEN [st |-> "ok", err |-> NoErr, el |-> NilPtr]
    ELSE GetMapItem(MapItem(cs[1]), Value(MapItem(cs[1]).key), cs, key)

RECURSIVE GetStruct(_, _, _)
\* case "Struct" of Get: the children cs still to scan; when the loop ends
\* without a match, control leaves the switch and reaches the panic
GetStruct(e, cs, key) ==
    IF cs = <<>> THEN [st |-> "panic", err |-> Err("panic", e.type, <<>>), el |-> NilPtr]
    ELSE IF cs[1] = NilPtr THEN [st |-> "panic", err |-> Err("panic", <<>>, <<>>), el |-> NilPtr]
    ELSE IF key.t = "string" /\ cs[1].name = key.v
    THEN [st |-> "ok", err |-> NoErr, el |-> cs[1]]
    ELSE GetStruct(e, Tail(cs), key)

\* (e *Element) Get(key): [st, el, err]; el is NilPtr for a nil *Element
Get(e, key) ==
    IF e.nil THEN [st |-> "err", err |-> Err("nilGet", <<>>, <<>>), el |-> NilPtr]
    ELSE LET t == skipNS(e.type)
         IN  CASE t = <<"S", "t", "r", "u", "c", "t">> -> GetStruct(e, e.children, key)
               [] t = <<"M", "a", "p">> -> GetMap(e.children, key)
               [] OTHER -> [st |-> "panic", err |-> Err("panic", e.type, <<>>), el |-> NilPtr]

\* (e *Element) GetValue(key)
GetValue(e, key) ==
    IF Get(e, key).st = "panic" THEN Panic(<<>>)
    ELSE IF Get(e, key).st = "err" THEN Fail(NilVal, Get(e, key).err)
    ELSE Value(Get(e, key).el)

----------------------------------------------------------------------------
(* Typed getters *)

\* a getter's outcome r converted to the result type t by the conversion F
Conv(r, t, F(_)) == [st |-> r.st, val |-> Val(t, F(r.val.v)), err |-> r.err]

\* fmt.Sprint(e.Value()): the value, a space unless the value is a string,
\* then the error.  The renderings of floats, times, containers and error
\* messages are stand-ins.
Sprint(r) ==
    LET v == r.val
        vs == CASE v.t = "nil" -> <<"<", "n", "i", "l", ">">>
                [] v.t = "string" -> v.v
                [] v.t = "bool" -> IF v.v THEN <<"t", "r", "u", "e">>
                                   ELSE <<"f", "a", "l", "s", "e">>
                [] v.t = "int64" -> FormatInt(v.v)
                [] v.t = "uint64" -> FormatUint(v.v)
                [] v.t = "[]interface{}" -> <<"[", "?", "]">>
                [] OTHER -> <<"m", "a", "p", "[", "?", "]">>
        es == IF r.st = "ok" THEN <<"<", "n", "i", "l", ">">>
              ELSE <<"s", "o", "a", "p", ":", " ", "?">>
    IN  vs \o (IF v.t = "string" THEN <<>> ELSE <<" ">>) \o es

Str(e) ==
    IF skipNS(e.type) # <<"s", "t", "r", "i", "n", "g">>
    THEN Fail(Val("string", <<>>), typeError(e, <<"s", "t", "r", "i", "n", "g">>))
    ELSE Ok(Val("string", e.text))

AsStr(e) ==
    IF e.children # <<>>
    THEN LET print(r) == IF r.st = "panic" THEN Panic(<<>>)
                         ELSE Ok(Val("string", Sprint(r)))
         IN  print(Value(e))
    ELSE Ok(Val("string", e.text))

Bool(e) ==
    IF skipNS(e.type) # <<"b", "o", "o", "l", "e", "a", "n">>
    THEN Fail(Val("bool", FALSE), typeError(e, <<"b", "o", "o", "l", "e", "a", "n">>))
    ELSE IF e.text = <<"t", "r", "u", "e">> THEN Ok(Val("bool", TRUE))
    ELSE IF e.text = <<"f", "a", "l", "s", "e">> THEN Ok(Val("bool", FALSE))
    ELSE Fail(Val("bool", FALSE), badValue(e, <<>>))

\* strconv.ParseBool(s): [ok, v]
ParseBool(s) ==
    IF s \in {<<"1">>, <<"t">>, <<"T">>, <<"T", "R", "U", "E">>,
              <<"t", "r", "u", "e">>, <<"T", "r", "u", "e">>}
    THEN [ok |-> TRUE, v |-> TRUE]
    ELSE IF s \in {<<"0">>, <<"f">>, <<"F">>, <<"F", "A", "L", "S", "E">>,
                   <<"f", "a", "l", "s", "e">>, <<"F", "a", "l", "s", "e">>}
    THEN [ok |-> TRUE, v |-> FALSE]
    ELSE [ok |-> FALSE, v |-> FALSE]

AsBool(e) ==
    IF e.children # <<>> THEN Fail(Val("bool", FALSE), badValue(e, <<"b", "o", "o", "l">>))
    ELSE IF e.nil THEN Ok(Val("bool", FALSE))
    ELSE LET got(p) == IF p.ok THEN Ok(Val("bool", p.v))
                 ELSE Fail(Val("bool", FALSE), badValue(e, <<"b", "o", "o", "l">>))
         IN  got(ParseBool(e.text))

soapIntTypeName(bits) ==
    CASE bits = 64 -> <<"l", "o", "n", "g">>
      [] bits = 32 -> <<"i", "n", "t">>
      [] bits = 16 -> <<"s", "h", "o", "r", "t">>
      [] bits = 8  -> <<"b", "y", "t", "e">>

\* an Int(bits) that reads the number whatever the tag
IntBitsAnyTag(e, bits) ==
    LET got(p) == IF p.ok THEN Ok(Val("int64", p.v))
                  ELSE Fail(Val("int64", Zero), badValue(e, <<>>))
    IN  got(ParseInt(e.text, bits))

\* (e *Element) Int(bits); the name Int is taken by the integers
IntBits(e, bits) ==
    LET t == soapIntTypeName(bits)
    IN  IF skipNS(e.type) # t THEN Fail(Val("int64", Zero), typeError(e, t))
        ELSE LET got(p) == IF p.ok THEN Ok(Val("int64", p.v))
                     ELSE Fail(Val("int64", Zero), badValue(e, <<>>))
             IN  got(ParseInt(e.text, bits))

soapUintTypeName(bits) ==
    CASE bits = 64 -> <<"u", "n", "s", "i", "g", "n", "e", "d", "L", "o", "n", "g">>
      [] bits = 32 -> <<"u", "n", "s", "i", "g", "n", "e", "d", "I", "n", "t">>
      [] bits = 16 -> <<"u", "n", "s", "i", "g", "n", "e", "d", "S", "h", "o", "r", "t">>
      [] bits = 8  -> <<"u", "n", "s", "i", "g", "n", "e", "d", "B", "y", "t", "e">>

Uint(e, bits) ==
    LET t == soapUintTypeName(bits)
    IN  IF skipNS(e.type) # t THEN Fail(Val("uint64", Zero), typeError(e, t))
        ELSE LET got(p) == IF p.ok THEN Ok(Val("uint64", p.v))
                     ELSE Fail(Val("uint64", Zero), badValue(e, <<>>))
             IN  got(ParseUint(e.text, bits))

Int64(e) == IntBits(e, 64)

Int32(e) == Conv(IntBits(e, 32), "int32", LAMBDA v : CastInt(v, 32))

Int16(e) == Conv(IntBits(e, 16), "int16", LAMBDA v : CastInt(v, 16))

\* the code calls e.Uint(8) here, not e.Int(8)
Int8(e) == Conv(Uint(e, 8), "int8", LAMBDA v : CastInt(v, 8))

Uint64(e) == Uint(e, 64)

Uint32(e) == Conv(Uint(e, 32), "uint32", LAMBDA v : CastUint(v, 32))

Uint16(e) == Conv(Uint(e, 16), "uint16", LAMBDA v : CastUint(v, 16))

Uint8(e) == Conv(Uint(e, 8), "uint8", LAMBDA v : CastUint(v, 8))

goIntTypeName(bits) ==
    CASE bits = 64 -> <<"i", "n", "t", "6", "4">>
      [] bits = 32 -> <<"i", "n", "t", "3", "2">>
      [] bits = 16 -> <<"i", "n", "t", "1", "6">>
      [] bits = 8  -> <<"i", "n", "t", "8">>

\* AsInt without its test of e.Children
AsIntOfText(e, bits) ==
    LET t == goIntTypeName(bits)
    IN  IF e.nil THEN Ok(Val("int64", Zero))
        ELSE LET got(p) == IF p.ok THEN Ok(Val("int64", p.v))
                     ELSE Fail(Val("int64", Zero), badValue(e, t))
             IN  got(ParseInt(e.text, bits))

\* (e *Element) AsInt(bits); Children is nil exactly when it is empty: the
\* decoder and MakeElement only ever append to it
AsInt(e, bits) ==
    LET t == goIntTypeName(bits)
    IN  IF e.children # <<>> THEN Fail(Val("int64", Zero), badValue(e, t))
        ELSE IF e.nil THEN Ok(Val("int64", Zero))
        ELSE LET got(p) == IF p.ok THEN Ok(Val("int64", p.v))
                     ELSE Fail(Val("int64", Zero), badValue(e, t))
             IN  got(ParseInt(e.text, bits))

AsInt64(e) == AsInt(e, 64)

AsInt32(e) == Conv(AsInt(e, 32), "int32", LAMBDA v : CastInt(v, 32))

AsInt16(e) == Conv(AsInt(e, 16), "int16", LAMBDA v : CastInt(v, 16))

AsInt8(e) == Conv(AsInt(e, 8), "int8", LAMBDA v : CastInt(v, 8))

\* the code names the type with goIntTypeName here, not goUintTypeName
AsUint(e, bits) ==
    LET t == goIntTypeName(bits)
    IN  IF e.children # <<>> THEN Fail(Val("uint64", Zero), badValue(e, t))
        ELSE IF e.nil THEN Ok(Val("uint64", Zero))
        ELSE LET got(p) == IF p.ok THEN Ok(Val("uint64", p.v))
                     ELSE Fail(Val("uint64", Zero), badValue(e, t))
             IN  got(ParseUint(e.text, bits))

AsUint64(e) == AsUint(e, 64)

AsUint32(e) == Conv(AsUint(e, 32), "uint32", LAMBDA v : CastUint(v, 32))

AsUint16(e) == Conv(AsUint(e, 16), "uint16", LAMBDA v : CastUint(v, 16))

AsUint8(e) == Conv(AsUint(e, 8), "uint8", LAMBDA v : CastUint(v, 8))

soapFloatTypeName(bits) ==
    CASE bits = 64 -> <<"d", "o", "u", "b", "l", "e">>
      [] bits = 32 -> <<"f", "l", "o", "a", "t">>

Float(e, bits) ==
    LET t == soapFloatTypeName(bits)
    IN  IF skipNS(e.type) # t THEN Fail(Val("float64", FZero), typeError(e, t))
        ELSE LET got(p) == IF p.ok THEN Ok(Val("float64", p.v))
                     ELSE Fail(Val("float64", FZero), badValue(e, <<>>))
             IN  got(ParseFloat(e.text, bits))

\* Go's conversion float32(v): beyond the float32 range the result is an infinity
CastFloat32(f) ==
    IF f.mant.mag # <<0>> /\ f.exp + Len(f.mant.mag) - 1 > FloatMaxExp(32)
    THEN [mant |-> [neg |-> f.mant.neg, mag |-> <<1>>], exp |-> 999]
    ELSE f

Float64(e) == Float(e, 64)

Float32(e) == Conv(Float(e, 32), "float32", LAMBDA v : CastFloat32(v))

goFloatTypeName(bits) ==
    CASE bits = 64 -> <<"f", "l", "o", "a", "t", "6", "4">>
      [] bits = 32 -> <<"f", "l", "o", "a", "t", "3", "2">>

AsFloat(e, bits) ==
    LET t == goFloatTypeName(bits)
    IN  IF e.children # <<>> THEN Fail(Val("float64", FZero), badValue(e, t))
        ELSE IF e.nil THEN Ok(Val("float64", FZero))
        ELSE LET got(p) == IF p.ok THEN Ok(Val("float64", p.v))
                     ELSE Fail(Val("float64", FZero), badValue(e, t))
             IN  got(ParseFloat(e.text, bits))

AsFloat64(e) == AsFloat(e, 64)

AsFloat32(e) == Conv(AsFloat(e, 32), "float32", LAMBDA v : CastFloat32(v))

\* the code names "float" as the expected type here
Time(e) ==
    IF skipNS(e.type) # <<"d", "a", "t", "e", "T", "i", "m", "e">>
    THEN Fail(Val("time.Time", ZeroTime), typeError(e, <<"f", "l", "o", "a", "t">>))
    ELSE LET got(p) == IF p.ok THEN Ok(Val("time.Time", p.v))
                 ELSE Fail(Val("time.Time", ZeroTime), badValue(e, <<>>))
         IN  got(TimeParse(timeFormatSOAP, e.text, <<"UTC">>))

AsTime(e, loc) ==
    LET t  == <<"t", "i", "m", "e", ".", "T", "i", "m", "e">>
        p1 == TimeParse(timeFormatSOAP, e.text, <<"UTC">>)
        p2 == TimeParse(timeFormatSQL, e.text, loc)
        p3 == TimeParse(SubSeq(timeFormatSQL, 1, 16), e.text, loc)
        p4 == TimeParse(SubSeq(timeFormatSQL, 1, 10), e.text, loc)
    IN  IF e.children # <<>> THEN Fail(Val("time.Time", ZeroTime), badValue(e, t))
        ELSE IF e.nil THEN Ok(Val("time.Time", ZeroTime))
        ELSE IF p1.ok THEN Ok(Val("time.Time", p1.v))
        ELSE IF p2.ok THEN Ok(Val("time.Time", p2.v))
        ELSE IF p3.ok THEN Ok(Val("time.Time", p3.v))
        ELSE IF p4.ok THEN Ok(Val("time.Time", p4.v))
        ELSE Fail(Val("time.Time", ZeroTime), badValue(e, t))

----------------------------------------------------------------------------
(* Native values and records.  A native value is Val(kind, v); a nil          *)
(* interface is NilVal, a pointer Val("ptr", pointee) with pointee NilVal     *)
(* when nil, a record Val("struct", [typ, val]) where typ lists the fields    *)
(* [name, tag, exported, kind] and val their values.                          *)

isEmptyValue(v) ==
    CASE v.t \in {"array", "map", "slice", "string"} -> Len(v.v) = 0
      [] v.t = "bool" -> ~v.v
      [] v.t \in {"int", "int8", "int16", "int32", "int64"} -> v.v = Zero
      [] v.t \in {"uint", "uint8", "uint16", "uint32", "uint64", "uintptr"} -> v.v = Zero
      [] v.t \in {"float32", "float64"} -> v.v.mant = Zero
      [] v.t = "nil" -> TRUE
      [] v.t = "ptr" -> v.v.t = "nil"
      [] OTHER -> FALSE

RECURSIVE MakeElement(_, _)
RECURSIVE MakeFields(_, _, _, _)

\* case reflect.Struct of MakeElement: fields i.. of the record, cs the
\* children appended so far; [st, e]
MakeFields(name, rec, i, cs) ==
    IF i > Len(rec.typ)
    THEN [e  |-> Element(name, <<"S", "O", "A", "P", "-", "E", "N", "C", ":",
                                 "S", "t", "r", "u", "c", "t">>, FALSE, <<>>, cs),
          st |-> "ok"]
    ELSE LET ft    == rec.typ[i]
             fv    == rec.val[i]
             c     == IndexRune(ft.tag, ",")
             opts  == IF c = 0 THEN <<>> ELSE SubSeq(ft.tag, c, Len(ft.tag))
             n0    == IF c = 0 THEN ft.tag ELSE SubSeq(ft.tag, 1, c - 1)
             skip  == \/ ~ft.exported
                      \/ /\ c # 0
                         /\ \/ /\ Contains(opts, <<",", "o", "m", "i", "t", "e", "m", "p", "t", "y">>)
                               /\ isEmptyValue(fv)
                            \/ Contains(opts, <<",", "i", "n">>)
                      \/ n0 = <<"-">>
             fname == IF n0 = <<>> THEN ft.name ELSE n0
         IN  IF skip THEN MakeFields(name, rec, i + 1, cs)
             ELSE LET ch == MakeElement(fname, fv)
                  IN  IF ch.st = "panic" THEN ch
                      ELSE MakeFields(name, rec, i + 1, Append(cs, ch.e))

\* MakeElement(name, a): [st, e]; st is "panic" for an unsupported kind
MakeElement(name, a) ==
    LET v == IF a.t = "ptr" THEN a.v ELSE a
        E(type, text) == [e |-> Element(name, type, FALSE, text, <<>>), st |-> "ok"]
        xsd(t) == <<"x", "s", "d", ":">> \o t
        nilE == [e |-> Element(name, <<>>, TRUE, <<>>, <<>>), st |-> "ok"]
    IN  IF a.t = "nil" THEN nilE
        ELSE IF a.t = "ptr" /\ a.v.t = "nil" THEN nilE
        ELSE CASE v.t = "time.Time" -> E(xsd(<<"d", "a", "t", "e", "T", "i", "m", "e">>), TimeFormat(v.v))
               [] v.t = "string" -> E(xsd(<<"s", "t", "r", "i", "n", "g">>), v.v)
               [] v.t = "bool" ->
                    E(xsd(<<"b", "o", "o", "l", "e", "a", "n">>),
                      IF v.v THEN <<"t", "r", "u", "e">> ELSE <<"f", "a", "l", "s", "e">>)
               [] v.t \in {"int", "int64"} -> E(xsd(<<"l", "o", "n", "g">>), FormatInt(v.v))
               [] v.t = "int32" -> E(xsd(<<"i", "n", "t">>), FormatInt(v.v))
               [] v.t = "int16" -> E(xsd(<<"s", "h", "o", "r", "t">>), FormatInt(v.v))
               [] v.t = "int8" -> E(xsd(<<"b", "y", "t", "e">>), FormatInt(v.v))
               [] v.t \in {"uint", "uint64"} ->
                    E(xsd(<<"u", "n", "s", "i", "g", "n", "e", "d", "L", "o", "n", "g">>), FormatUint(v.v))
               [] v.t = "uint32" ->
                    E(xsd(<<"u", "n", "s", "i", "g", "n", "e", "d", "I", "n", "t">>), FormatUint(v.v))
               [] v.t = "uint16" ->
                    E(xsd(<<"u", "n", "s", "i", "g", "n", "e", "d", "S", "h", "o", "r", "t">>), FormatUint(v.v))
               [] v.t = "uint8" ->
                    E(xsd(<<"u", "n", "s", "i", "g", "n", "e", "d", "B", "y", "t", "e">>), FormatUint(v.v))
               [] v.t = "float32" -> E(xsd(<<"f", "l", "o", "a", "t">>), FormatFloat(v.v, 7))
               [] v.t = "float64" -> E(xsd(<<"d", "o", "u", "b", "l", "e">>), FormatFloat(v.v, 16))
               [] v.t = "struct" -> MakeFields(name, v.v, 1, <<>>)
               [] OTHER -> [e |-> NilPtr, st |-> "panic"]

----------------------------------------------------------------------------
(* LoadStruct *)

\* reflect.Zero(ft.Type) for the kinds LoadStruct is used with
ZeroOf(kind) ==
    CASE kind = "string" -> Val(kind, <<>>)
      [] kind = "bool" -> Val(kind, FALSE)
      [] kind \in {"float32", "float64"} -> Val(kind, FZero)
      [] kind = "time.Time" -> Val(kind, ZeroTime)
      [] kind = "slice" -> Val(kind, <<>>)
      [] OTHER -> Val(kind, Zero)

\* the switch on fv.Kind(): [st, err, set, val]; set tells whether the field
\* is assigned (fv.SetX runs before err is looked at), val what it is set to
LoadField(item, kind, strict) ==
    LET R(r, v) == [st |-> r.st, val |-> Val(kind, v), err |-> r.err, set |-> r.st # "panic"]
        Same(r)     == R(r, r.val.v)
        I(r, bits)  == R(r, CastInt(r.val.v, bits))
        U(r, bits)  == R(r, CastUint(r.val.v, bits))
        F32(r)      == R(r, CastFloat32(r.val.v))
        int(bits)   == I(IF strict THEN IntBits(item, bits) ELSE AsInt(item, bits), bits)
        uint(bits)  == U(IF strict THEN Uint(item, bits) ELSE AsUint(item, bits), bits)
    IN  CASE kind = "string" -> Same(IF strict THEN Str(item) ELSE AsStr(item))
          [] kind = "bool" -> Same(IF strict THEN Bool(item) ELSE AsBool(item))
          [] kind = "int64" -> int(64)
          [] kind = "int32" -> int(32)
          [] kind = "int16" -> int(16)
          [] kind = "int8" -> int(8)
          [] kind = "uint64" -> uint(64)
          [] kind = "uint32" -> uint(32)
          [] kind = "uint16" -> uint(16)
          [] kind = "uint8" -> uint(8)
          [] kind = "float64" -> Same(IF strict THEN Float(item, 64) ELSE AsFloat(item, 64))
          \* the code asks for 64 bits here too
          [] kind = "float32" -> F32(IF strict THEN Float(item, 64) ELSE AsFloat(item, 64))
          [] kind = "time.Time" ->
                Same(IF strict THEN Time(item) ELSE AsTime(item, <<"Local">>))
          [] OTHER -> [st |-> "err", val |-> ZeroOf(kind),
                       err |-> Err("unsupportedField", <<kind>>, <<>>), set |-> FALSE]

\* the name part of a field's soap tag: the tag up to its first comma
TagName(ft) ==
    LET c == IndexRune(ft.tag, ",")
    IN  IF c = 0 THEN ft.tag ELSE SubSeq(ft.tag, 1, c - 1)

\* the name LoadStruct looks a field up by
WireName(ft) == IF TagName(ft) = <<>> THEN ft.name ELSE TagName(ft)

\* a field assigned only when its accessor returned no error
SetFieldOnSuccess(r, vals, i) ==
    [st |-> r.st,
     val |-> IF r.set /\ r.st = "ok" THEN [vals EXCEPT ![i] = r.val] ELSE vals,
     err |-> r.err,
     at |-> i]

\* fv.SetX(...) and the test of err that follow the switch on the kind of
\* field i: r is the accessor's outcome, vals the record's values
SetField(r, vals, i) ==
    [st |-> r.st,
     val |-> IF r.set THEN [vals EXCEPT ![i] = r.val] ELSE vals,
     err |-> r.err,
     at |-> i]

\* the loop of LoadStruct for field i from the lookup on: item is what
\* e.Get(name) returned
LoadItem(item, name, kind, vals, strict, i) ==
    IF item.st # "ok" THEN [st |-> item.st, val |-> vals, err |-> item.err, at |-> i]
    ELSE IF item.el = NilPtr
    THEN IF strict
         THEN [st |-> "err", val |-> vals, err |-> Err("noField", name, <<>>), at |-> i]
         ELSE [st |-> "ok", val |-> [vals EXCEPT ![i] = ZeroOf(kind)], err |-> NoErr,
               at |-> i]
    ELSE SetField(LoadField(item.el, kind, strict), vals, i)

\* one pass of the loop of LoadStruct, for field i of the record type typ
\* holding vals: [st, err, val, at]; st is "ok" when the loop goes on
LoadAt(e, typ, vals, strict, i) ==
    IF ~typ[i].exported \/ TagName(typ[i]) = <<"-">>
    THEN [st |-> "ok", val |-> vals, err |-> NoErr, at |-> i]
    ELSE LoadItem(Get(e, Val("string", WireName(typ[i]))), WireName(typ[i]),
                  typ[i].kind, vals, strict, i)

RECURSIVE LoadFrom(_, _, _, _, _)
\* the loop of LoadStruct from field i on, vals the record's values so far:
\* [st, err, val, at]; at is the field at which the call ended, 0 at the end
LoadFrom(e, typ, vals, strict, i) ==
    LET next(r) == IF r.st = "ok" THEN LoadFrom(e, typ, r.val, strict, i + 1) ELSE r
    IN  IF i > Len(typ) THEN [st |-> "ok", val |-> vals, err |-> NoErr, at |-> 0]
        ELSE next(LoadAt(e, typ, vals, strict, i))

\* (e *Element) LoadStruct(sp, strict); sp is [ptr, typ, val], ptr telling
\* whether sp is a pointer to a struct
LoadStruct(e, sp, strict) ==
    IF ~sp.ptr
    THEN [st |-> "err", val |-> sp.val, err |-> Err("notStructPointer", <<>>, <<>>), at |-> 0]
    ELSE LoadFrom(e, sp.typ, sp.val, strict, 1)

----------------------------------------------------------------------------
(* The inputs: elements as the XML decoder can deliver them, native values,   *)
(* records to load into, lookup keys                                          *)

\* the most children of a generated Array element or map item
MaxKids == 3

\* the most children of a generated Struct element
MaxFields == 2

SeqsUpTo(S, n) == UNION {[1..k -> S] : k \in 0..n}

IntTags ==
    {<<"b", "y", "t", "e">>, <<"s", "h", "o", "r", "t">>, <<"i", "n", "t">>, <<"l", "o", "n", "g">>,
     <<"u", "n", "s", "i", "g", "n", "e", "d", "B", "y", "t", "e">>,
     <<"u", "n", "s", "i", "g", "n", "e", "d", "S", "h", "o", "r", "t">>,
     <<"u", "n", "s", "i", "g", "n", "e", "d", "I", "n", "t">>,
     <<"u", "n", "s", "i", "g", "n", "e", "d", "L", "o", "n", "g">>}

ScalarTags ==
    IntTags \cup {<<"s", "t", "r", "i", "n", "g">>, <<"b", "o", "o", "l", "e", "a", "n">>,
                  <<"f", "l", "o", "a", "t">>, <<"d", "o", "u", "b", "l", "e">>,
                  <<"d", "a", "t", "e", "T", "i", "m", "e">>}

\* the vocabulary, the empty tag and a tag outside the vocabulary
AllTags ==
    ScalarTags \cup {<<"S", "t", "r", "u", "c", "t">>, <<"A", "r", "r", "a", "y">>,
                     <<"M", "a", "p">>, <<>>, <<"f", "o", "o">>}

IntTexts ==
    {<<"0">>,
     <<"-", "1">>,
     <<"+", "5">>,
     <<"0", "0", "7">>,
     <<"1", "2", "7">>,
     <<"1", "2", "8">>,
     <<"-", "1", "2", "8">>,
     <<"-", "1", "2", "9">>,
     <<"2", "0", "0">>,
     <<"2", "5", "5">>,
     <<"2", "5", "6">>,
     <<"3", "2", "7", "6", "7">>,
     <<"3", "2", "7", "6", "8">>,
     <<"6", "5", "5", "3", "5">>,
     <<"6", "5", "5", "3", "6">>,
     <<"2", "1", "4", "7", "4", "8", "3", "6", "4", "7">>,
     <<"2", "1", "4", "7", "4", "8", "3", "6", "4", "8">>,
     <<"-", "2", "1", "4", "7", "4", "8", "3", "6", "4", "8">>,
     <<"4", "2", "9", "4", "9", "6", "7", "2", "9", "5">>,
     <<"4", "2", "9", "4", "9", "6", "7", "2", "9", "6">>,
     <<"9", "2", "2", "3", "3", "7", "2", "0", "3", "6", "8", "5", "4", "7", "7", "5", "8", "0", "7">>,
     <<"9", "2", "2", "3", "3", "7", "2", "0", "3", "6", "8", "5", "4", "7", "7", "5", "8", "0", "8">>,
     <<"-", "9", "2", "2", "3", "3", "7", "2", "0", "3", "6", "8", "5", "4", "7", "7", "5", "8", "0", "8">>,
     <<"1", "8", "4", "4", "6", "7", "4", "4", "0", "7", "3", "7", "0", "9", "5", "5", "1", "6", "1", "5">>,
     <<"1", "8", "4", "4", "6", "7", "4", "4", "0", "7", "3", "7", "0", "9", "5", "5", "1", "6", "1", "6">>}

SoapTime == <<"2", "0", "0", "6", "-", "0", "1", "-", "0", "2", "T", "1", "5", ":", "0", "4", ":", "0", "5",
              ".", "0", "0", "0", "0", "0", "0", "0", "0", "0", "-", "0", "7", ":", "0", "0">>

SqlTime == <<"2", "0", "0", "6", "-", "0", "1", "-", "0", "2", " ", "1", "5", ":", "0", "4", ":", "0", "5">>

TimeTexts ==
    {SoapTime, SqlTime, SubSeq(SqlTime, 1, 16), SubSeq(SqlTime, 1, 10),
     <<"2", "0", "0", "6", "-", "1", "3", "-", "0", "2">>}

BoolTexts ==
    {<<"t", "r", "u", "e">>, <<"f", "a", "l", "s", "e">>, <<"1">>, <<"T", "R", "U", "E">>,
     <<"y", "e", "s">>}

FloatTexts ==
    {<<"1", ".", "5">>, <<"1", "e", "3", "9">>, <<"1", "e", "4", "0", "0">>,
     <<"1", ".", "5", "0", "0", "0", "0", "0", "0", "0", "e", "+", "0", "0">>, <<"-", ".", "5", "E", "-", "2">>}

GenericTexts ==
    {<<>>, <<"5">>, <<"2", "0", "0">>, <<"t", "r", "u", "e">>, <<"a", "b", "c">>, <<"1", ".", "5">>,
     SoapTime}

AllTexts == IntTexts \cup TimeTexts \cup BoolTexts \cup FloatTexts \cup GenericTexts

Leaf(name, type, text) == Element(name, type, FALSE, text, <<>>)

Prefixed(t) == <<"x", "s", "d", ":">> \o t

\* elements for the scalar getters: every tag with the texts that matter to
\* it, every text without a tag, prefixed tags, nil elements, elements with a child
ScalarElems ==
    LET L(t, x) == Leaf(<<"x">>, t, x)
        kid == Leaf(<<"A">>, <<"s", "t", "r", "i", "n", "g">>, <<"k">>)
        few == {<<"5">>, <<"t", "r", "u", "e">>}
    IN  {L(t, x) : t \in IntTags, x \in IntTexts}
        \cup {L(t, x) : t \in AllTags, x \in GenericTexts}
        \cup {L(<<>>, x) : x \in AllTexts}
        \cup {L(<<"b", "o", "o", "l", "e", "a", "n">>, x) : x \in BoolTexts}
        \cup {L(t, x) : t \in {<<"f", "l", "o", "a", "t">>, <<"d", "o", "u", "b", "l", "e">>},
                        x \in FloatTexts}
        \cup {L(<<"d", "a", "t", "e", "T", "i", "m", "e">>, x) : x \in TimeTexts}
        \cup {L(Prefixed(t), x) : t \in AllTags, x \in few}
        \cup {L(<<"a", ":", "b", ":", "i", "n", "t">>, <<"5">>)}
        \cup {[L(t, x) EXCEPT !.nil = TRUE] : t \in AllTags, x \in {<<>>, <<"5">>}}
        \cup {[L(t, x) EXCEPT !.children = <<kid>>] : t \in AllTags, x \in few}
        \cup {[L(<<>>, x) EXCEPT !.children = <<kid>>, !.nil = TRUE] : x \in few}

FieldTags == ScalarTags \cup {<<"S", "t", "r", "u", "c", "t">>, <<>>, <<"f", "o", "o">>,
                              Prefixed(<<"i", "n", "t">>)}

FieldTexts ==
    {<<"5">>, <<"2", "0", "0">>, <<"2", "1", "4", "7", "4", "8", "3", "6", "4", "8">>,
     <<"2", "1", "4", "7", "4", "8", "3", "6", "4", "7">>,
     <<"-", "2", "1", "4", "7", "4", "8", "3", "6", "4", "8">>,
     <<"-", "2", "1", "4", "7", "4", "8", "3", "6", "4", "9">>,
     <<"t", "r", "u", "e">>, <<"1", "e", "3", "9">>, SoapTime}

\* the children named A of the generated Struct elements
FieldLeaves ==
    {Leaf(<<"A">>, t, x) : t \in FieldTags, x \in FieldTexts}
    \cup {Element(<<"A">>, <<>>, TRUE, <<>>, <<>>),
          Element(<<"A">>, <<"l", "o", "n", "g">>, FALSE, <<"5">>,
                  <<Leaf(<<"z">>, <<"s", "t", "r", "i", "n", "g">>, <<"k">>)>>)}

\* the children that follow or precede them
MoreLeaves ==
    {Leaf(<<"B">>, <<"i", "n", "t">>, <<"7">>),
     Leaf(<<"A">>, <<"s", "t", "r", "i", "n", "g">>, <<"d", "u", "p">>)}

StructElems ==
    LET S(t, cs) == Element(<<"x">>, t, FALSE, <<>>, cs)
        plain == <<"S", "t", "r", "u", "c", "t">>
        enc   == <<"S", "O", "A", "P", "-", "E", "N", "C", ":">> \o plain
    IN  {S(plain, <<>>), S(enc, <<>>)}
        \cup {S(plain, <<a>> \o r) : a \in FieldLeaves, r \in SeqsUpTo(MoreLeaves, MaxFields - 1)}
        \cup {S(enc, <<b, a>>) : a \in {Leaf(<<"A">>, <<"i", "n", "t">>, <<"5">>),
                                        Leaf(<<"A">>, <<"i", "n", "t">>, <<"a", "b", "c">>)},
                                 b \in {Leaf(<<"B">>, <<"i", "n", "t">>, <<"7">>),
                                        Leaf(<<"B">>, <<"i", "n", "t">>, <<"b", "a", "d">>)}}

ArrayKids ==
    {Leaf(<<"i", "t", "e", "m">>, <<"l", "o", "n", "g">>, <<"5">>),
     Leaf(<<"i", "t", "e", "m">>, <<"b", "o", "o", "l", "e", "a", "n">>, <<"b", "a", "d">>),
     Leaf(<<"b", "o", "g", "u", "s">>, <<"s", "t", "r", "i", "n", "g">>, <<"v">>)}

ArrayElems ==
    {Element(<<"x">>, <<"A", "r", "r", "a", "y">>, FALSE, <<>>, cs) : cs \in SeqsUpTo(ArrayKids, MaxKids)}

keyA == Leaf(<<"k", "e", "y">>, <<"s", "t", "r", "i", "n", "g">>, <<"A">>)

valueL == Leaf(<<"v", "a", "l", "u", "e">>, <<"l", "o", "n", "g">>, <<"7">>)

ItemKids == {keyA, valueL, Leaf(<<"e", "x", "t", "r", "a">>, <<"s", "t", "r", "i", "n", "g">>, <<"e">>), NilPtr}

Item(cs) == Element(<<"i", "t", "e", "m">>, <<>>, FALSE, <<>>, cs)

\* items beyond the generated ones: a key that is a number, a key whose text
\* does not decode, a key that is a record, a value that does not decode, a
\* child of a map that is not named item
OddItems ==
    {Item(<<Leaf(<<"k", "e", "y">>, <<"l", "o", "n", "g">>, <<"5">>), valueL>>),
     Item(<<Leaf(<<"k", "e", "y">>, <<"b", "o", "o", "l", "e", "a", "n">>, <<"b", "a", "d">>), valueL>>),
     Item(<<Element(<<"k", "e", "y">>, <<"S", "t", "r", "u", "c", "t">>, FALSE, <<>>, <<>>), valueL>>),
     Item(<<keyA, Leaf(<<"v", "a", "l", "u", "e">>, <<"f", "o", "o">>, <<"7">>)>>),
     Item(<<Leaf(<<"k", "e", "y">>, <<"s", "t", "r", "i", "n", "g">>, <<"B">>),
            Element(<<"v", "a", "l", "u", "e">>, <<>>, TRUE, <<>>, <<>>)>>),
     Element(<<"b", "o", "g", "u", "s">>, <<>>, FALSE, <<>>, <<keyA, valueL>>)}

\* map items on their own, for MapItem
ItemElems == {Item(cs) : cs \in SeqsUpTo(ItemKids, MaxKids)} \cup OddItems

MapElems ==
    LET M(cs) == Element(<<"x">>, <<"M", "a", "p">>, FALSE, <<>>, cs)
    IN  {M(<<>>)} \cup {M(<<i>>) : i \in ItemElems}
        \cup {M(<<Item(<<valueL, keyA>>), i>>) : i \in OddItems}
        \cup {M(<<i, Item(<<keyA, valueL>>)>>) : i \in OddItems}

ParsedElems == ScalarElems \cup StructElems \cup ArrayElems \cup MapElems \cup ItemElems

\* the text of an integer of the inputs, as the number it writes
NumText(x) == ParseInt(x, 64).v

SampleTime == [date |-> <<2006, 1, 2>>, clock |-> <<15, 4, 5>>, nsec |-> 0,
               zone |-> <<"-", "0", "7", ":", "0", "0">>]

Float15 == [mant |-> [neg |-> FALSE, mag |-> <<1, 5>>], exp |-> -1]

\* the scalars MakeElement is given: for each integer kind its least and
\* greatest value and some between
IntsOf(kind) ==
    CASE kind = "int8" -> {NumOf(-128), NumOf(-1), Zero, NumOf(5), NumOf(127)}
      [] kind = "int16" -> {NumOf(-32768), Zero, NumOf(200), NumOf(32767)}
      [] kind = "int32" -> {NumOf(-2147483647), NumText(<<"-", "2", "1", "4", "7", "4", "8", "3", "6", "4", "8">>),
                            Zero, NumOf(40000), NumOf(2147483647)}
      [] kind \in {"int64", "int"} ->
            {NumText(<<"-", "9", "2", "2", "3", "3", "7", "2", "0", "3", "6", "8", "5", "4", "7", "7", "5", "8", "0", "8">>),
             NumOf(-1), Zero,
             NumText(<<"9", "2", "2", "3", "3", "7", "2", "0", "3", "6", "8", "5", "4", "7", "7", "5", "8", "0", "7">>)}
      [] kind = "uint8" -> {Zero, NumOf(5), NumOf(128), NumOf(255)}
      [] kind = "uint16" -> {Zero, NumOf(256), NumOf(65535)}
      [] kind = "uint32" -> {Zero, NumOf(65536), [neg |-> FALSE, mag |-> UintMax(32)]}
      [] kind \in {"uint64", "uint"} -> {Zero, NumOf(7), [neg |-> FALSE, mag |-> UintMax(64)]}

IntKinds == {"int8", "int16", "int32", "int64", "int", "uint8", "uint16", "uint32", "uint64", "uint"}

StringsOf == {<<>>, <<"x">>, <<"5">>, <<"a", ":", "b">>}

FloatsOf == {FZero, Float15}

\* a field: its Go name, its soap tag, whether it is exported, its kind
Fld(name, tag, kind) == [name |-> name, tag |-> tag, exported |-> TRUE, kind |-> kind]

omitB == <<"B", ",", "o", "m", "i", "t", "e", "m", "p", "t", "y">>

\* values of the other kinds, records among them: {A string; B int32
\* `soap:"B,omitempty"`} with B zero and not, a record with an input-only, an
\* excluded and an unexported field, a record {A string `soap:"a,inline"`;
\* B int32 `soap:"b,omitempty"`}, a record holding a slice, a record
\* {A *int32; I interface{} `soap:"i"`} holding nil twice; nil, a time,
\* pointers, and kinds MakeElement does not encode
OtherNatives ==
    LET AB == <<Fld(<<"A">>, <<>>, "string"), Fld(<<"B">>, omitB, "int32")>>
        mix == <<Fld(<<"A">>, <<"a", "a">>, "string"),
                 Fld(<<"P">>, <<"p", ",", "i", "n">>, "int32"),
                 Fld(<<"Q">>, <<"-">>, "int32"),
                 [name |-> <<"r">>, tag |-> <<>>, exported |-> FALSE, kind |-> "int32"],
                 Fld(<<"S">>, <<",", "o", "m", "i", "t", "e", "m", "p", "t", "y">>, "string")>>
        AV(b) == Val("struct", [val |-> <<Val("string", <<"x">>), Val("int32", b)>>, typ |-> AB])
        MV(x) == Val("struct", [val |-> <<Val("string", <<"x">>), Val("int32", NumOf(1)),
                                          Val("int32", NumOf(2)), Val("int32", NumOf(3)),
                                          Val("string", x)>>,
                                typ |-> mix])
        opt == <<Fld(<<"A">>, <<"a", ",", "i", "n", "l", "i", "n", "e">>, "string"),
                 Fld(<<"B">>, <<"b", ",", "o", "m", "i", "t", "e", "m", "p", "t", "y">>, "int32")>>
    IN  <<AV(Zero), AV(NumOf(5)), MV(<<>>), MV(<<"s">>),
          Val("struct", [val |-> <<Val("string", <<"x">>), Val("int32", NumOf(2))>>, typ |-> opt]),
          Val("struct", [val |-> <<Val("slice", <<>>)>>, typ |-> <<Fld(<<"A">>, <<>>, "slice")>>]),
          Val("struct", [val |-> <<Val("ptr", NilVal), Val("nil", <<>>)>>,
                         typ |-> <<Fld(<<"A">>, <<>>, "ptr"), Fld(<<"I">>, <<"i">>, "interface")>>]),
          NilVal, Val("time.Time", SampleTime), Val("slice", <<>>), Val("map", <<>>),
          Val("chan", <<>>),
          Val("ptr", NilVal), Val("ptr", Val("int32", NumOf(5))), Val("ptr", Val("ptr", NilVal))>>

\* the kinds of the fields LoadStruct is used with; "int" and "slice" are not
\* among the cases of its switch
FieldKinds ==
    {"string", "bool", "int64", "int32", "int16", "int8", "uint64", "uint32", "uint16",
     "uint8", "float64", "float32", "time.Time", "int", "slice"}

\* a value other than the zero value of the kind, held before LoadStruct runs
OldOf(kind) ==
    CASE kind = "string" -> Val(kind, <<"o", "l", "d">>)
      [] kind = "bool" -> Val(kind, TRUE)
      [] kind \in {"float32", "float64"} -> Val(kind, [mant |-> NumOf(25), exp |-> -1])
      [] kind = "time.Time" -> Val(kind, SampleTime)
      [] kind = "slice" -> Val(kind, <<"s">>)
      [] OTHER -> Val(kind, NumOf(9))

\* records to load into: {A K; B int32 `soap:"B,omitempty"`} for each kind K,
\* and a record whose fields are renamed, excluded or unexported
TargetOf(fs) == [val |-> [i \in 1..Len(fs) |-> OldOf(fs[i].kind)], typ |-> fs, ptr |-> TRUE]

TargetAB(k) == TargetOf(<<Fld(<<"A">>, <<>>, k), Fld(<<"B">>, omitB, "int32")>>)

OtherTargets ==
    <<TargetOf(<<[name |-> <<"a">>, tag |-> <<>>, exported |-> FALSE, kind |-> "int32"],
                 Fld(<<"Q">>, <<"-">>, "int32"),
                 Fld(<<"F">>, <<"B", ",", "i", "n">>, "int64"),
                 Fld(<<"G">>, <<"A">>, "string")>>),
      [TargetOf(<<Fld(<<"A">>, <<>>, "string")>>) EXCEPT !.ptr = FALSE]>>

Keys == <<Val("string", <<"A">>), Val("string", <<"C">>), Val("int64", NumOf(5))>>

Getters ==
    {"Str", "Bool", "Int64", "Int32", "Int16", "Int8", "Uint64", "Uint32", "Uint16", "Uint8",
     "Float64", "Float32", "Time",
     "AsStr", "AsBool", "AsInt64", "AsInt32", "AsInt16", "AsInt8", "AsUint64", "AsUint32",
     "AsUint16", "AsUint8", "AsFloat64", "AsFloat32", "AsTime"}

\* the getter named g applied to e
Apply(g, e) ==
    CASE g = "Str" -> Str(e)         [] g = "AsStr" -> AsStr(e)
      [] g = "Bool" -> Bool(e)       [] g = "AsBool" -> AsBool(e)
      [] g = "Int64" -> Int64(e)     [] g = "AsInt64" -> AsInt64(e)
      [] g = "Int32" -> Int32(e)     [] g = "AsInt32" -> AsInt32(e)
      [] g = "Int16" -> Int16(e)     [] g = "AsInt16" -> AsInt16(e)
      [] g = "Int8" -> Int8(e)       [] g = "AsInt8" -> AsInt8(e)
      [] g = "Uint64" -> Uint64(e)   [] g = "AsUint64" -> AsUint64(e)
      [] g = "Uint32" -> Uint32(e)   [] g = "AsUint32" -> AsUint32(e)
      [] g = "Uint16" -> Uint16(e)   [] g = "AsUint16" -> AsUint16(e)
      [] g = "Uint8" -> Uint8(e)     [] g = "AsUint8" -> AsUint8(e)
      [] g = "Float64" -> Float64(e) [] g = "AsFloat64" -> AsFloat64(e)
      [] g = "Float32" -> Float32(e) [] g = "AsFloat32" -> AsFloat32(e)
      [] g = "Time" -> Time(e)       [] g = "AsTime" -> AsTime(e, <<"Local">>)

----------------------------------------------------------------------------
(* The caller *)

NoNative == Val("none", <<>>)

NoTarget == [val |-> <<>>, typ |-> <<>>, ptr |-> TRUE]

Call(op, key, sp, strict, out) ==
    [key |-> key, strict |-> strict, sp |-> sp, op |-> op, out |-> out]

NoCall == Call("none", NilVal, NoTarget, FALSE, Ok(NilVal))

\* the XML decoder has delivered an element
Init ==
    /\ elem \in ParsedElems
    /\ made = NoNative
    /\ last = NoCall

\* The codec keeps no state between calls and never writes to an Element, so
\* the caller is followed through one encoding and one call on the element it
\* then holds: a further call would see the same element.
Holding == last.op = "none" \/ (last.op = "MakeElement" /\ last.out.st = "ok")

\* MakeElement(name, a); a panic leaves the caller without a new element
CallMakeElement(name, a) ==
    LET return(r) ==
            /\ elem' = IF r.st = "ok" THEN r.e ELSE elem
            /\ made' = IF r.st = "ok" THEN a ELSE NoNative
            /\ last' = Call("MakeElement", a, NoTarget, FALSE,
                            [st |-> r.st, val |-> NilVal, err |-> NoErr])
    IN  /\ last.op = "none"
        /\ return(MakeElement(name, a))

CallValue ==
    /\ Holding
    /\ last' = Call("Value", NilVal, NoTarget, FALSE, Value(elem))
    /\ UNCHANGED <<elem, made>>

CallMapItem ==
    /\ Holding
    /\ last' = Call("MapItem", NilVal, NoTarget, FALSE, MapItem(elem))
    /\ UNCHANGED <<elem, made>>

CallGet(key) ==
    /\ Holding
    /\ last' = Call("Get", key, NoTarget, FALSE, Get(elem, key))
    /\ UNCHANGED <<elem, made>>

CallGetValue(key) ==
    /\ Holding
    /\ last' = Call("GetValue", key, NoTarget, FALSE, GetValue(elem, key))
    /\ UNCHANGED <<elem, made>>

CallGetter(g) ==
    /\ Holding
    /\ last' = Call(g, NilVal, NoTarget, FALSE, Apply(g, elem))
    /\ UNCHANGED <<elem, made>>

\* e.LoadStruct(sp, strict): the caller's record is written in place
CallLoadStruct(sp, strict) ==
    /\ Holding
    /\ last' = Call("LoadStruct", NilVal, sp, strict, LoadStruct(elem, sp, strict))
    /\ UNCHANGED <<elem, made>>

Next ==
    \/ \E k \in IntKinds : \E n \in IntsOf(k) : CallMakeElement(<<"x">>, Val(k, n))
    \/ \E x \in StringsOf : CallMakeElement(<<"x">>, Val("string", x))
    \/ \E b \in BOOLEAN : CallMakeElement(<<"x">>, Val("bool", b))
    \/ \E k \in {"float32", "float64"}, f \in FloatsOf : CallMakeElement(<<"x">>, Val(k, f))
    \/ \E i \in 1..Len(OtherNatives) : CallMakeElement(<<"x">>, OtherNatives[i])
    \/ CallValue
    \/ CallMapItem
    \/ \E i \in 1..Len(Keys) : CallGet(Keys[i])
    \/ \E i \in 1..Len(Keys) : CallGetValue(Keys[i])
    \/ \E g \in Getters : CallGetter(g)
    \/ \E k \in FieldKinds, strict \in BOOLEAN : CallLoadStruct(TargetAB(k), strict)
    \/ \E i \in 1..Len(OtherTargets), strict \in BOOLEAN : CallLoadStruct(OtherTargets[i], strict)

Spec == Init /\ [][Next]_vars

----------------------------------------------------------------------------
(* Properties of the specification                                          *)

\* the vocabulary's wire tag of each native kind and width
TagOfKind(k) ==
    CASE k = "string" -> <<"s", "t", "r", "i", "n", "g">>
      [] k = "bool" -> <<"b", "o", "o", "l", "e", "a", "n">>
      [] k = "int64" -> <<"l", "o", "n", "g">>
      [] k = "int32" -> <<"i", "n", "t">>
      [] k = "int16" -> <<"s", "h", "o", "r", "t">>
      [] k = "int8" -> <<"b", "y", "t", "e">>
      [] k = "uint64" -> <<"u", "n", "s", "i", "g", "n", "e", "d", "L", "o", "n", "g">>
      [] k = "uint32" -> <<"u", "n", "s", "i", "g", "n", "e", "d", "I", "n", "t">>
      [] k = "uint16" -> <<"u", "n", "s", "i", "g", "n", "e", "d", "S", "h", "o", "r", "t">>
      [] k = "uint8" -> <<"u", "n", "s", "i", "g", "n", "e", "d", "B", "y", "t", "e">>
      [] k = "float64" -> <<"d", "o", "u", "b", "l", "e">>
      [] k = "float32" -> <<"f", "l", "o", "a", "t">>
      [] k = "time.Time" -> <<"d", "a", "t", "e", "T", "i", "m", "e">>

\* the kinds with a strict getter, and the strict getter of each
ScalarKinds ==
    {"string", "bool", "int64", "int32", "int16", "int8", "uint64", "uint32", "uint16",
     "uint8", "float64", "float32", "time.Time"}

StrictGetterOf(k) ==
    CASE k = "string" -> "Str"     [] k = "bool" -> "Bool"
      [] k = "int64" -> "Int64"    [] k = "int32" -> "Int32"
      [] k = "int16" -> "Int16"    [] k = "int8" -> "Int8"
      [] k = "uint64" -> "Uint64"  [] k = "uint32" -> "Uint32"
      [] k = "uint16" -> "Uint16"  [] k = "uint8" -> "Uint8"
      [] k = "float64" -> "Float64" [] k = "float32" -> "Float32"
      [] k = "time.Time" -> "Time"

StrictGetters == {StrictGetterOf(k) : k \in ScalarKinds}

LenientGetters == Getters \ StrictGetters

KindOfGetter(g) == CHOOSE k \in ScalarKinds : StrictGetterOf(k) = g

Struct == <<"S", "t", "r", "u", "c", "t">>

\* the index of the first child of e named n, 0 when there is none
FirstNamed(e, n) ==
    IF \E i \in 1..Len(e.children) : e.children[i].name = n
    THEN CHOOSE i \in 1..Len(e.children) :
            /\ e.children[i].name = n
            /\ \A j \in 1..(i - 1) : e.children[j].name # n
    ELSE 0

\* C1: round trip. For each of the kinds string, bool, int8..int64 and
\* uint8..uint64 and every value v of the kind, the strict getter of the kind
\* applied to MakeElement(name, v) returns v and no error.
C1_RoundTrip ==
    (/\ made.t \in ScalarKinds \ {"float64", "float32", "time.Time"}
     /\ last.op = StrictGetterOf(made.t))
        => /\ last.out.st = "ok"
           /\ last.out.val.t = made.t
           /\ last.out.val.v = made.v

\* C2: Get(name) on a Struct element that is not nil returns the first child
\* named name; when no child has the name it returns no element and no error,
\* and does not fault.
C2_GetStruct ==
    (/\ last.op = "Get"
     /\ ~elem.nil
     /\ skipNS(elem.type) = Struct
     /\ last.key.t = "string")
        => /\ last.out.st = "ok"
           /\ last.out.err = NoErr
           /\ last.out.el = IF FirstNamed(elem, last.key.v) = 0 THEN NilPtr
                            ELSE elem.children[FirstNamed(elem, last.key.v)]

\* the call of LoadStruct ended at a field whose wire name no child of the
\* Struct element carries
EndedAtMissing ==
    /\ last.op = "LoadStruct"
    /\ ~elem.nil
    /\ skipNS(elem.type) = Struct
    /\ last.sp.ptr
    /\ last.out.at # 0
    /\ FirstNamed(elem, WireName(last.sp.typ[last.out.at])) = 0

\* C3: a field whose wire name no child of the Struct element carries makes
\* strict LoadStruct return the "missing field" error for that field, and
\* lenient LoadStruct set the field to the zero value of its kind and go on:
\* only a strict call ends at such a field, and it ends with that error.
C3_MissingField ==
    EndedAtMissing
        => /\ last.strict
           /\ last.out.st = "err"
           /\ last.out.err.class = "noField"

\* C4: a strict getter succeeds only on an element whose tag, its namespace
\* prefix stripped, is the vocabulary's tag of the getter's kind and width;
\* on every other tag it returns a type-mismatch error.
C4_StrictTag ==
    (last.op \in StrictGetters /\ skipNS(elem.type) # TagOfKind(KindOfGetter(last.op)))
        => /\ last.out.st = "err"
           /\ last.out.err.class = "typeError"

WellFormedItem(e) ==
    /\ e.name = <<"i", "t", "e", "m">>
    /\ Len(e.children) = 2
    /\ \A i \in 1..2 : e.children[i] # NilPtr
    /\ {e.children[1].name, e.children[2].name} = {<<"k", "e", "y">>, <<"v", "a", "l", "u", "e">>}

\* C6: MapItem returns a decode error, and does not fault, for every
\* malformed map item; for a well-formed item it returns the child named key
\* and the child named value, whichever comes first.
C6_MapItemErrors ==
    last.op = "MapItem"
        => IF WellFormedItem(elem)
           THEN /\ last.out.st = "ok"
                /\ last.out.key.name = <<"k", "e", "y">>
                /\ last.out.val.name = <<"v", "a", "l", "u", "e">>
           ELSE last.out.st = "err"

\* C7: Get on an element that is not nil and whose tag is neither Struct nor
\* Map returns an error to its caller and does not fault.
C7_GetOther ==
    (/\ last.op = "Get"
     /\ ~elem.nil
     /\ skipNS(elem.type) \notin {Struct, <<"M", "a", "p">>})
        => last.out.st = "err"

\* Get finds no entry for the key in the Struct or Map element e
NoEntry(e, key) ==
    /\ ~e.nil
    /\ \/ skipNS(e.type) = Struct /\ key.t = "string" /\ FirstNamed(e, key.v) = 0
       \/ /\ skipNS(e.type) = <<"M", "a", "p">>
          /\ Get(e, key).st = "ok"
          /\ Get(e, key).el = NilPtr

\* C8: GetValue(key) is Get(key) followed by Value() on the element found:
\* Get's error when Get fails, the decoded value or the decode error when the
\* entry is found, and no value and no fault when there is no entry.
C8_GetValue ==
    last.op = "GetValue"
        => IF NoEntry(elem, last.key)
           THEN last.out.st = "ok" /\ last.out.val.t = "nil"
           ELSE IF Get(elem, last.key).st = "err"
           THEN last.out.st = "err" /\ last.out.err = Get(elem, last.key).err
           ELSE IF Get(elem, last.key).st = "ok"
           THEN last.out = Value(Get(elem, last.key).el)
           ELSE TRUE

\* the bit-width of a numeric kind
WidthOf(k) ==
    CASE k \in {"int64", "uint64", "float64"} -> 64
      [] k \in {"int32", "uint32", "float32"} -> 32
      [] k \in {"int16", "uint16"} -> 16
      [] k \in {"int8", "uint8"} -> 8

\* the value v of kind k lies in the range of the kind's width
InRangeOf(k, v) ==
    CASE k \in {"int64", "int32", "int16", "int8"} -> InIntRange(v, WidthOf(k))
      [] k \in {"uint64", "uint32", "uint16", "uint8"} -> InUintRange(v, WidthOf(k))
      [] k \in {"float64", "float32"} ->
            v.mant.mag = <<0>> \/ v.exp + Len(v.mant.mag) - 1 <= FloatMaxExp(WidthOf(k))
      [] OTHER -> TRUE

\* LoadStruct was called on a Struct element with a record whose first field
\* is loadable, of a scalar kind, and found among the element's children
FirstFieldFound ==
    /\ last.op = "LoadStruct"
    /\ ~elem.nil
    /\ skipNS(elem.type) = Struct
    /\ last.sp.ptr
    /\ last.sp.typ # <<>>
    /\ last.sp.typ[1].exported
    /\ TagName(last.sp.typ[1]) # <<"-">>
    /\ last.sp.typ[1].kind \in ScalarKinds
    /\ FirstNamed(elem, WireName(last.sp.typ[1])) # 0

\* the child the first field is loaded from
FirstFieldItem == elem.children[FirstNamed(elem, WireName(last.sp.typ[1]))]

\* C9: LoadStruct picks the accessor by the field's exact kind and width. A
\* strict call rejects the field with a type-mismatch error exactly when the
\* element's tag is not the vocabulary's tag of the kind and width; a lenient
\* call that loads the field leaves a value in the range of the width.
C9_AccessorByKind ==
    FirstFieldFound
        => /\ last.strict =>
                ((/\ last.out.at = 1
                  /\ last.out.st = "err"
                  /\ last.out.err.class = "typeError")
                 <=> skipNS(FirstFieldItem.type) # TagOfKind(last.sp.typ[1].kind))
           /\ (~last.strict /\ (last.out.at # 1 \/ last.out.st = "ok")) =>
                InRangeOf(last.sp.typ[1].kind, last.out.val[1].v)

\* two values of a field are the same value
SameValue(x, y) == x.t = y.t /\ x.v = y.v

\* LoadStruct returned a conversion error: the element of field k was found,
\* and the field's accessor returned a type-mismatch or bad-value error
AccessorFailed ==
    /\ last.op = "LoadStruct"
    /\ last.out.st = "err"
    /\ last.out.at # 0
    /\ Get(elem, Val("string", WireName(last.sp.typ[last.out.at]))).st = "ok"
    /\ Get(elem, Val("string", WireName(last.sp.typ[last.out.at]))).el # NilPtr
    /\ last.out.err.class \in {"typeError", "badValue"}

\* C10 as stated: when LoadStruct returns a conversion error raised at field
\* k, field k and every field after k hold the values they had before the
\* call.
C10_AbortKeepsFields ==
    AccessorFailed
        => \A j \in last.out.at..Len(last.sp.val) :
              SameValue(last.out.val[j], last.sp.val[j])

\* C10: when LoadStruct returns an error raised at field k, every field after
\* k holds the value it had before the call; field k holds the zero value of
\* its kind when its element was found and its accessor returned a
\* type-mismatch or bad-value error, and the value it had before the call
\* otherwise.
C10_AbortZeroesField ==
    (last.op = "LoadStruct" /\ last.out.st = "err" /\ last.out.at # 0)
        => /\ \A j \in (last.out.at + 1)..Len(last.sp.val) :
                 SameValue(last.out.val[j], last.sp.val[j])
           /\ SameValue(last.out.val[last.out.at],
                        IF AccessorFailed THEN ZeroOf(last.sp.typ[last.out.at].kind)
                        ELSE last.sp.val[last.out.at])

\* LoadStruct has failed at a first field that held a value other than zero,
\* with a field after it
C10_Witness ==
    /\ AccessorFailed
    /\ last.out.at = 1
    /\ Len(last.sp.val) >= 2
    /\ ~SameValue(last.sp.val[1], ZeroOf(last.sp.typ[1].kind))
    /\ SameValue(last.out.val[1], ZeroOf(last.sp.typ[1].kind))

\* the name reflect prints for the type of a field of a kind the switch of
\* LoadStruct has no case for
TypeName(kind) ==
    IF kind = "slice" THEN <<"[", "]", "s", "t", "r", "i", "n", "g">> ELSE <<"i", "n", "t">>

\* err.Error() of the errors LoadStruct returns: the message the error
\* was made with
ErrorText(err) ==
    CASE err.class = "typeError" ->
            <<"s", "o", "a", "p", ":", " ", "e", "l", "e", "m", "e", "n", "t", " ", "o", "f", " ", "t", "y", "p", "e", " ", "'">> \o err.a
            \o <<"'", " ", "b", "u", "t", " ", "'">> \o err.b \o <<"'", " ", "e", "x", "p", "e", "c", "t", "e", "d">>
      [] err.class = "badValue" ->
            <<"s", "o", "a", "p", ":", " ", "b", "a", "d", " ", "v", "a", "l", "u", "e", " ", "'">> \o err.a
            \o <<"'", " ", "f", "o", "r", " ", "t", "y", "p", "e", " ">> \o err.b
      [] err.class = "noField" ->
            <<"s", "o", "a", "p", ":", " ", "t", "h", "e", "r", "e", " ", "i", "s", " ", "n", "o", " ", "f", "i", "e", "l", "d", " ", "o", "f", " ", "n", "a", "m", "e", " ", "'">>
            \o err.a \o <<"'">>
      [] err.class = "unsupportedField" ->
            <<"s", "o", "a", "p", ":", " ", "u", "n", "s", "u", "p", "p", "o", "r", "t", "e", "d", " ", "f", "i", "e", "l", "d", " ", "t", "y", "p", "e", " ">>
            \o TypeName(err.a[1])
      [] err.class = "notStructPointer" ->
            <<"s", "o", "a", "p", ":", " ", "a", "r", "g", "u", "m", "e", "n", "t", " ", "s", "h", "o", "u", "l", "d", " ", "b", "e", " ", "a", " ", "p", "o", "i", "n", "t", "e", "r", " ", "t", "o", " ", "t", "h", "e", " ", "s", "t", "r", "u", "c", "t">>
      [] err.class = "nilGet" ->
            <<"s", "o", "a", "p", ":", " ", "c", "a", "n", "'", "t", " ", "g", "e", "t", " ", "v", "a", "l", "u", "e", " ", "f", "r", "o", "m", " ", "n", "i", "l", " ", "S", "t", "r", "u", "c", "t", "/", "M", "a", "p">>
      [] OTHER -> err.a

\* LoadStruct returned because the conversion of a field failed: the field's
\* element was found and the field's accessor returned a type-mismatch or a
\* bad-value error, or the field is of a type LoadStruct does not support
ConversionFailed ==
    /\ last.op = "LoadStruct"
    /\ last.out.st = "err"
    /\ last.out.at # 0
    /\ Get(elem, Val("string", WireName(last.sp.typ[last.out.at]))).st = "ok"
    /\ Get(elem, Val("string", WireName(last.sp.typ[last.out.at]))).el # NilPtr
    /\ last.out.err.class \in {"typeError", "badValue", "unsupportedField"}

\* C11: every error LoadStruct returns because the conversion of a field
\* failed names the field: the field's wire name occurs in the error's
\* message.
C11_ErrorNamesField ==
    ConversionFailed
        => Contains(ErrorText(last.out.err), WireName(last.sp.typ[last.out.at]))

\* C12: when a strict getter rejects an element for its tag, the error names
\* the element's tag, its namespace prefix stripped, and the vocabulary's tag
\* of the getter's own kind and width.
C12_TypeErrorNames ==
    (/\ last.op \in StrictGetters
     /\ last.out.st = "err"
     /\ last.out.err.class = "typeError")
        => /\ last.out.err.a = skipNS(elem.type)
           /\ last.out.err.b = TagOfKind(KindOfGetter(last.op))

\* the options of a field's directive: the text after its first comma
OptionText(ft) ==
    IF IndexRune(ft.tag, ",") = 0 THEN <<>>
    ELSE SubSeq(ft.tag, IndexRune(ft.tag, ",") + 1, Len(ft.tag))

\* the directive of ft carries the option o: o is one of the comma-separated
\* options that follow the wire name
Carries(ft, o) ==
    \E i \in 1..Len(OptionText(ft)) :
        /\ i + Len(o) - 1 <= Len(OptionText(ft))
        /\ SubSeq(OptionText(ft), i, i + Len(o) - 1) = o
        /\ (i = 1 \/ OptionText(ft)[i - 1] = ",")
        /\ (i + Len(o) - 1 = Len(OptionText(ft)) \/ OptionText(ft)[i + Len(o)] = ",")

\* the zero or empty value of a kind: the empty string or collection, the
\* number zero, false, an absent optional
EmptyOfKind(v) ==
    CASE v.t \in {"string", "slice", "map"} -> v.v = <<>>
      [] v.t = "bool" -> v.v = FALSE
      [] v.t \in IntKinds -> v.v = Zero
      [] v.t \in {"float32", "float64"} -> v.v.mant.mag = <<0>>
      [] v.t = "nil" -> TRUE
      [] v.t = "ptr" -> v.v.t = "nil"
      [] OTHER -> FALSE

\* field i of the record rec is encoded: it is exported and not excluded
Encoded(rec, i) ==
    /\ rec.typ[i].exported
    /\ TagName(rec.typ[i]) # <<"-">>
    /\ ~Carries(rec.typ[i], <<"i", "n">>)
    /\ ~(Carries(rec.typ[i], <<"o", "m", "i", "t", "e", "m", "p", "t", "y">>)
         /\ EmptyOfKind(rec.val[i]))

\* the fields of rec that are encoded, in declaration order
EncodedFields(rec) ==
    SelectSeq([i \in 1..Len(rec.typ) |-> i], LAMBDA i : Encoded(rec, i))

\* C13: MakeElement on a record emits one child for each exported field that
\* is not excluded, in declaration order, and no other child: a field is
\* excluded exactly when its wire name is -, or it carries the option in, or
\* it carries omitempty and holds the zero or empty value of its kind; the
\* child is named by the name part of the directive, or by the field's
\* declared name when there is none.
C13_RecordChildren ==
    (last.op = "MakeElement" /\ made.t = "struct")
        => /\ Len(elem.children) = Len(EncodedFields(made.v))
           /\ \A j \in 1..Len(elem.children) :
                 /\ j <= Len(EncodedFields(made.v))
                 /\ elem.children[j].name = WireName(made.v.typ[EncodedFields(made.v)[j]])

\* the lenient getter of each kind and width
LenientGetterOf(k) ==
    CASE k = "string" -> "AsStr"     [] k = "bool" -> "AsBool"
      [] k = "int64" -> "AsInt64"    [] k = "int32" -> "AsInt32"
      [] k = "int16" -> "AsInt16"    [] k = "int8" -> "AsInt8"
      [] k = "uint64" -> "AsUint64"  [] k = "uint32" -> "AsUint32"
      [] k = "uint16" -> "AsUint16"  [] k = "uint8" -> "AsUint8"
      [] k = "float64" -> "AsFloat64" [] k = "float32" -> "AsFloat32"
      [] k = "time.Time" -> "AsTime"

KindOfLenient(g) == CHOOSE k \in ScalarKinds : LenientGetterOf(k) = g

\* C14: every lenient getter applied to an element whose nil flag is set
\* returns the zero value of its kind and no error, whatever the element's
\* tag, text and children.
C14_LenientNil ==
    (last.op \in LenientGetters /\ elem.nil)
        => /\ last.out.st = "ok"
           /\ SameValue(last.out.val, ZeroOf(KindOfLenient(last.op)))

\* C15: every strict getter applied to an element whose nil flag is set
\* fails with a type-mismatch error; none returns a value for a nil element.
C15_StrictNil ==
    (last.op \in StrictGetters /\ elem.nil)
        => /\ last.out.st = "err"
           /\ last.out.err.class = "typeError"

\* no value: nil, or a nil pointer
Absent(a) == a.t = "nil" \/ (a.t = "ptr" /\ a.v.t = "nil")

\* the nil element of a name: the nil flag set, no tag, no text, no children
NilElement(name) == Element(name, <<>>, TRUE, <<>>, <<>>)

\* C16: MakeElement(name, a) for an absent a (nil or a nil pointer), at the
\* top or for a field of a record, returns the nil element of that name: nil
\* flag set, no tag, no text, no children; and Value() on an element whose
\* nil flag is set returns no value and no error, whatever its tag, text and
\* children.
C16_AbsentAndNil ==
    /\ (last.op = "MakeElement" /\ last.out.st = "ok" /\ Absent(made))
            => elem = NilElement(<<"x">>)
    /\ (last.op = "MakeElement" /\ made.t = "struct")
            => \A j \in 1..Len(EncodedFields(made.v)) :
                  Absent(made.v.val[EncodedFields(made.v)[j]])
                     => /\ j <= Len(elem.children)
                        /\ elem.children[j]
                              = NilElement(WireName(made.v.typ[EncodedFields(made.v)[j]]))
    /\ (last.op = "Value" /\ elem.nil)
            => /\ last.out.st = "ok"
               /\ last.out.val.t = "nil"
               /\ last.out.err = NoErr

\* Value() has been called on the nil element MakeElement returned for a nil
\* pointer
C16_Witness ==
    /\ last.op = "Value"
    /\ made.t = "ptr"
    /\ Absent(made)
    /\ elem = NilElement(<<"x">>)
    /\ last.out.st = "ok"

\* the text x writes a decimal integer: an optional sign, then digits
WritesInteger(x) ==
    LET body == IF x # <<>> /\ x[1] \in {"+", "-"} THEN Tail(x) ELSE x
    IN  body # <<>> /\ \A i \in 1..Len(body) : IsDigit(body[i])

\* the digits of the integer x writes, without leading zeros
DigitsWritten(x) ==
    LET body == IF x[1] \in {"+", "-"} THEN Tail(x) ELSE x
    IN  StripZeros([i \in 1..Len(body) |-> DigitOf(body[i])])

\* the text x denotes an integer in [-2^31, 2^31-1]
DenotesInt32(x) ==
    /\ WritesInteger(x)
    /\ \/ MagLE(DigitsWritten(x), <<2, 1, 4, 7, 4, 8, 3, 6, 4, 7>>)
       \/ x[1] = "-" /\ DigitsWritten(x) = <<2, 1, 4, 7, 4, 8, 3, 6, 4, 8>>

\* LoadStruct was called with a record whose first field is a 32-bit signed
\* integer, on a Struct element where the field's element is a scalar
\* tagged long
Int32FromLong ==
    /\ FirstFieldFound
    /\ last.sp.typ[1].kind = "int32"
    /\ skipNS(FirstFieldItem.type) = <<"l", "o", "n", "g">>
    /\ ~FirstFieldItem.nil
    /\ FirstFieldItem.children = <<>>

\* C17: loading a field declared int32 from a scalar element tagged long:
\* strict LoadStruct fails at the field with a type-mismatch error naming the
\* tags long and int; lenient LoadStruct loads the field, with the integer
\* the text denotes, exactly when the text denotes an integer in
\* [-2^31, 2^31-1], and fails at the field with a bad-value error otherwise.
C17_Int32FromLong ==
    Int32FromLong
        => IF last.strict
           THEN /\ last.out.st = "err"
                /\ last.out.at = 1
                /\ last.out.err = Err("typeError", <<"l", "o", "n", "g">>, <<"i", "n", "t">>)
           ELSE IF DenotesInt32(FirstFieldItem.text)
           THEN /\ last.out.at # 1
                /\ last.out.val[1].t = "int32"
                /\ last.out.val[1].v.mag = DigitsWritten(FirstFieldItem.text)
                /\ last.out.val[1].v.neg
                      = (FirstFieldItem.text[1] = "-" /\ last.out.val[1].v.mag # <<0>>)
           ELSE /\ last.out.st = "err"
                /\ last.out.at = 1
                /\ last.out.err.class = "badValue"

\* lenient LoadStruct has succeeded and stored the least 32-bit integer, read
\* from an element tagged long
C17_Witness ==
    /\ Int32FromLong
    /\ ~last.strict
    /\ FirstFieldItem.text = <<"-", "2", "1", "4", "7", "4", "8", "3", "6", "4", "8">>
    /\ last.out.st = "ok"
    /\ last.out.val[1].v = [neg |-> TRUE, mag |-> <<2, 1, 4, 7, 4, 8, 3, 6, 4, 8>>]

\* the tag t without its namespace prefix: what follows the first ':' of t,
\* t itself when it has none
Unprefixed(t) ==
    IF \A i \in 1..Len(t) : t[i] # ":" THEN t
    ELSE LET c == CHOOSE i \in 1..Len(t) : t[i] = ":" /\ \A j \in 1..(i - 1) : t[j] # ":"
         IN  [i \in 1..(Len(t) - c) |-> t[c + i]]

\* the elements that differ from e only in the namespace prefix of the tag:
\* e under another prefix, and e without a prefix
OtherPrefixes(e) ==
    {[e EXCEPT !.type = p \o Unprefixed(e.type)] : p \in {<<"q", ":">>, <<"S", "t", "r", "u", "c", "t", ":">>}}
    \cup {[e EXCEPT !.type = t] : t \in {u \in {Unprefixed(e.type)} : Unprefixed(u) = u}}

\* the outcomes x and y of a call are the same: both return, or both fail
\* with the same kind of error (the same error, unless it quotes the whole
\* tag), or both fault
SameOutcome(x, y) ==
    /\ x.st = y.st
    /\ x.err.class = y.err.class
    /\ x.err.class \notin {"unknownType", "panic"} => x.err = y.err

\* C18: namespace-prefix invariance. Value(), Get and every strict getter
\* return the same outcome, with the same value, on two elements that differ
\* only in the namespace prefix of the tag.
C18_PrefixInvariance ==
    \A e \in OtherPrefixes(elem) :
        /\ last.op = "Value"
              => /\ SameOutcome(last.out, Value(e))
                 /\ last.out.val.t = Value(e).val.t
                 /\ last.out.val.v = Value(e).val.v
        /\ last.op = "Get"
              => /\ SameOutcome(last.out, Get(e, last.key))
                 /\ last.out.el = Get(e, last.key).el
        /\ last.op \in StrictGetters
              => /\ SameOutcome(last.out, Apply(last.op, e))
                 /\ last.out.val.t = Apply(last.op, e).val.t
                 /\ last.out.val.v = Apply(last.op, e).val.v

\* Int32 has returned the number of an element tagged xsd:int
C18_Witness ==
    /\ last.op = "Int32"
    /\ elem.type = <<"x", "s", "d", ":", "i", "n", "t">>
    /\ last.out.st = "ok"
    /\ last.out.val.v = NumOf(5)

\* the element e is an Array element that is not nil
IsArray(e) == ~e.nil /\ Unprefixed(e.type) = <<"A", "r", "r", "a", "y">>

\* child i of e stops the decoding of the Array element e: it is not named
\* item, or its own decoding fails
Offends(e, i) ==
    \/ e.children[i].name # <<"i", "t", "e", "m">>
    \/ Value(e.children[i]).st # "ok"

\* the first child of e that stops the decoding, 0 when none does
FirstOffending(e) ==
    IF \A i \in 1..Len(e.children) : ~Offends(e, i) THEN 0
    ELSE CHOOSE i \in 1..Len(e.children) :
            Offends(e, i) /\ \A j \in 1..(i - 1) : ~Offends(e, j)

\* C19: Value() on an Array element returns the list of its children's
\* decoded values, in the order of the children, when every child is named
\* item and decodes; it returns an error naming the child as soon as it meets
\* a child with another name, and the child's decode error as soon as it
\* meets an item that does not decode.
C19_ArrayValue ==
    (last.op = "Value" /\ IsArray(elem))
        => IF FirstOffending(elem) = 0
           THEN /\ last.out.st = "ok"
                /\ last.out.val.t = "[]interface{}"
                /\ Len(last.out.val.v) = Len(elem.children)
                /\ \A i \in 1..Len(elem.children) :
                      SameValue(last.out.val.v[i], Value(elem.children[i]).val)
           ELSE IF elem.children[FirstOffending(elem)].name # <<"i", "t", "e", "m">>
           THEN /\ last.out.st = "err"
                /\ last.out.err.class = "badArrayElement"
                /\ last.out.err.a = elem.children[FirstOffending(elem)].name
           ELSE /\ last.out.st = "err"
                /\ last.out.err = Value(elem.children[FirstOffending(elem)]).err

\* Value() has failed on an Array element with the children item, item,
\* bogus, naming bogus
C19_Witness ==
    /\ last.op = "Value"
    /\ IsArray(elem)
    /\ Len(elem.children) = 3
    /\ elem.children[1].name = <<"i", "t", "e", "m">>
    /\ elem.children[2].name = <<"i", "t", "e", "m">>
    /\ elem.children[3].name = <<"b", "o", "g", "u", "s">>
    /\ last.out.st = "err"
    /\ last.out.err.a = <<"b", "o", "g", "u", "s">>

StrictIntGetters ==
    {"Int8", "Int16", "Int32", "Int64", "Uint8", "Uint16", "Uint32", "Uint64"}

\* C20: a strict integer getter that returns no error returns the decimal
\* integer the element's text writes, and that integer lies in the range of
\* the getter's result type: no value is wrapped by the narrowing conversion.
C20_NoWrapAround ==
    (last.op \in StrictIntGetters /\ last.out.st = "ok")
        => /\ WritesInteger(elem.text)
           /\ last.out.val.v.mag = DigitsWritten(elem.text)
           /\ last.out.val.v.neg = (elem.text[1] = "-" /\ DigitsWritten(elem.text) # <<0>>)
           /\ InRangeOf(KindOfGetter(last.op), last.out.val.v)

\* C21: lenient access extends strict access. Whenever a strict getter
\* returns a value and no error, the lenient getter of the same kind and
\* width, on the same element, returns the same value and no error; and
\* whenever strict LoadStruct succeeds, lenient LoadStruct on the same
\* element and record succeeds and leaves the same values in the record.
C21_LenientExtendsStrict ==
    /\ (last.op \in StrictGetters /\ last.out.st = "ok")
          => /\ Apply(LenientGetterOf(KindOfGetter(last.op)), elem).st = "ok"
             /\ SameValue(Apply(LenientGetterOf(KindOfGetter(last.op)), elem).val,
                          last.out.val)
    /\ (last.op = "LoadStruct" /\ last.strict /\ last.out.st = "ok")
          => /\ LoadStruct(elem, last.sp, FALSE).st = "ok"
             /\ \A i \in 1..Len(last.sp.val) :
                   SameValue(LoadStruct(elem, last.sp, FALSE).val[i], last.out.val[i])

====
